---------------------------- MODULE Spec2Model ----------------------------
(***************************************************************************)
(* A model of the liquid-level tracking core of heinsight:                 *)
(*   - the tolerance trackers of heinsight/liquidlevel/track_tolerance_    *)
(*     levels.py (TrackLiquidToleranceLevels and its one- and two-level    *)
(*     subclasses),                                                        *)
(*   - the parts of LiquidLevel (heinsight/liquidlevel/liquid_level.py)    *)
(*     that drive a tracker: start, run, reset, in_tolerance and           *)
(*     distance_from_reference,                                            *)
(*   - the measurement aggregation of LiquidLevelMonitor                   *)
(*     (heinsight_applications/heinsight_liquid_level_applications.py).    *)
(*                                                                         *)
(* Numbers.  Relative heights are floats in the code.  Here a relative     *)
(* height is an integer number of units of 1/MaxHeight of the image        *)
(* height, and sample values of the aggregator are integers in units of    *)
(* 1/10000; all arithmetic is exact.  Floating-point rounding is not       *)
(* modelled.                                                               *)
(*                                                                         *)
(* Results.  An operation that returns or raises leaves its outcome in     *)
(* ret: ret.raised is the name of the exception ("" when the call          *)
(* returned), ret.bool and ret.list hold the returned value, and           *)
(* ret.num / ret.den is a returned average, kept as an exact fraction.     *)
(***************************************************************************)
EXTENDS Integers, Sequences, FiniteSets, TLC

(***************************************************************************)
(* Bounds of the model.                                                    *)
(***************************************************************************)
\* relative heights range over 0..MaxHeight, in units of 1/MaxHeight
MaxHeight == 2
\* the longest list of reference rows explored
MaxRefs == 2

\* the longest liquid_level_array explored
MaxLevels == 2

Heights == 0..MaxHeight

VARIABLES
    \* ---- TrackLiquidToleranceLevels (and subclasses) ----
    tracker_class,            \* "one" or "two": the subclass in use
    above_in_tolerance,       \* TrackOneLiquidToleranceLevel only
    reference_rows,           \* list of relative heights
    reference_image,          \* "None" or the image last used as reference
    reference_image_height,
    reference_image_width,
    tolerance_levels,         \* list of relative heights
    \* ---- LiquidLevel ----
    row,                      \* the current liquid level (relative height)
    volumes_list,
    use_reference,
    use_tolerance,
    list_of_frame_points,
    mask_to_search_inside,
    \* ---- history: which reference the user selected last for a volume ----
    selected_for,
    starts,                   \* "none", "ref" (only set_reference starts) or "mixed"
    liquid_level_array,       \* the levels find_liquid_level has stored
    find_meniscus_minimum,    \* minimum fraction of pixels, in units of 1/EvidenceMax
    no_error,
    \* ---- the smoothed channel profile handed to find_max_change_location ----
    aspect_smoothed,
    \* ---- MeasurementAggregator: the samples handed to monitor_liquid_level ----
    df,
    \* ---- LiquidLevelMonitor / AutomatedCPCDualPumps and their TryTracker ----
    monitor_class,            \* "LiquidLevelMonitor" or "AutomatedCPCDualPumps"
    number_of_monitor_liquid_level_replicate_measurements,
    application_liquid_level_data,   \* <<timestamp, height>> entries
    max_number_of_tries,
    try_counter,
    pc,                       \* where the measurement loop of the monitor is
    number_of_times_to_try,   \* iterations the loop has left
    list_of_percent_diff,
    \* ---- history: failed level searches since the last successful one, and
    \* ---- the pictures taken by the measurement loop under way ----
    consecutive_failures,
    attempts,
    \* ---- the save folder and the json file of the monitor ----
    clock,                    \* datetime.now(), in seconds
    save_folder_bool,
    save_folder_on_disk,
    save_file_on_disk,
    liquid_level_data_file,   \* "liquid_level_data" of the json file: <<timestamp, height>> entries
    application_liquid_level_data_save_file_path,
    \* ---- LiquidLevelMonitor.run / AutomatedCPCDualPumps.run and the pumps ----
    run_pc,                   \* where run() is
    run_experiment,
    pause_experiment,
    pumps_are_running,
    dispense_pump,            \* "stopped" or "running"
    withdraw_pump,
    pending_error,            \* the exception run() is propagating, "" if none
    \* ---- history ----
    stop_commands,            \* the pumps sent stop() since run() was called
    do_not_try_again_calls,   \* calls of do_not_try_again since the measurement loop under way began
    fail_safe_tripped,
    \* ---- the image lists of LiquidLevel: the times of the images held ----
    all_images_with_lines,
    all_images_no_lines,
    all_images_edge,
    all_images_bw,
    \* ---- outcome of the last call ----
    ret

trackerVars == <<tracker_class, above_in_tolerance, reference_rows, reference_image,
                 reference_image_height, reference_image_width, tolerance_levels>>
llVars == <<row, volumes_list, use_reference, use_tolerance, list_of_frame_points,
            mask_to_search_inside, selected_for, starts>>
findVars == <<find_meniscus_minimum, no_error, aspect_smoothed>>
monVars == <<monitor_class, number_of_monitor_liquid_level_replicate_measurements,
             application_liquid_level_data, max_number_of_tries, try_counter, pc,
             number_of_times_to_try, list_of_percent_diff, consecutive_failures,
             attempts>>
logVars == <<clock, save_folder_bool, save_folder_on_disk, save_file_on_disk,
             liquid_level_data_file, application_liquid_level_data_save_file_path>>
runVars == <<run_pc, run_experiment, pause_experiment, pumps_are_running, dispense_pump,
             withdraw_pump, pending_error, stop_commands, do_not_try_again_calls,
             fail_safe_tripped>>
imageVars == <<all_images_with_lines, all_images_no_lines, all_images_edge, all_images_bw>>
appVars == <<logVars, runVars, imageVars>>
vars == <<tracker_class, above_in_tolerance, reference_rows, reference_image,
          reference_image_height, reference_image_width, tolerance_levels,
          row, volumes_list, use_reference, use_tolerance, list_of_frame_points,
          mask_to_search_inside, selected_for, starts, liquid_level_array,
          find_meniscus_minimum, no_error, aspect_smoothed, df,
          monitor_class, number_of_monitor_liquid_level_replicate_measurements,
          application_liquid_level_data, max_number_of_tries, try_counter, pc,
          number_of_times_to_try, list_of_percent_diff, consecutive_failures,
          attempts, logVars, runVars, imageVars, ret>>

(***************************************************************************)
(* Outcomes.                                                               *)
(***************************************************************************)
NoCall ==
    [op |-> "none", arg |-> 0, vol |-> "", raised |-> "", bool |-> FALSE, list |-> <<>>,
     num |-> 0, den |-> 1]
Returned(op, arg, b, l) ==
    [op |-> op, arg |-> arg, vol |-> "", raised |-> "", bool |-> b, list |-> l,
     num |-> 0, den |-> 1]
Raised(op, arg, e) ==
    [op |-> op, arg |-> arg, vol |-> "", raised |-> e, bool |-> FALSE, list |-> <<>>,
     num |-> 0, den |-> 1]

(***************************************************************************)
(* Images.  Two images of different sizes; find_image_height_width reads    *)
(* the size off image.shape.                                               *)
(***************************************************************************)
Images == {"imgA", "imgB"}
ImageHeight(image) == IF image = "imgA" THEN MaxHeight ELSE 2 * MaxHeight
ImageWidth(image) == IF image = "imgA" THEN MaxHeight + 1 ELSE 2 * MaxHeight + 1

\* select_one_line returns the y coordinate of the user's click: a pixel row of
\* the image.  Only the rows whose relative height is a whole number of units
\* are explored.
ClickableRows(image) ==
    {y \in 0..(ImageHeight(image) - 1) : (y * MaxHeight) % ImageHeight(image) = 0}

\* line_height / image_height, in units of 1/MaxHeight
RelativeLineHeight(line_height, image_height) == (line_height * MaxHeight) \div image_height

\* the named setpoints a reference can be selected for
Volumes == {"v1", "v2"}
\* no reference was selected for the volume
NotSelected == 0 - 1

Min(a, b) == IF a <= b THEN a ELSE b
Max(a, b) == IF a >= b THEN a ELSE b

(***************************************************************************)
(* TrackLiquidToleranceLevels: pure parts.                                 *)
(***************************************************************************)
\* TrackLiquidToleranceLevels.distance_from_reference: row - height for every
\* reference row, in order
Mut_DistanceList_Swapped(rows, height) == [i \in 1..Len(rows) |-> height - rows[i]]
DistanceList(rows, height) == [i \in 1..Len(rows) |-> rows[i] - height]

\* TrackOneLiquidToleranceLevel.in_tolerance, given a set level
Mut_OneVerdict_Inclusive(above, level, height) ==
    IF above THEN height < level ELSE height >= level
Mut_OneVerdict_Always(above, level, height) == above
OneVerdict(above, level, height) ==
    IF above THEN height < level ELSE height > level

\* TrackTwoLiquidToleranceLevels.in_tolerance, given two set levels
Mut_TwoVerdict_Inclusive(tolerance_one, tolerance_two, height) ==
    (height >= Min(tolerance_one, tolerance_two)) /\ (height <= Max(tolerance_one, tolerance_two))
TwoVerdict(tolerance_one, tolerance_two, height) ==
    LET upper_tolerance_level == Min(tolerance_one, tolerance_two)
        lower_tolerance_level == Max(tolerance_one, tolerance_two)
    IN (height > upper_tolerance_level) /\ (height < lower_tolerance_level)

\* in_tolerance of the tracker in use, as an outcome.  Neither subclass finds
\* the list empty before it indexes it ("self.tolerance_levels is []" is never
\* true), so an empty list ends in IndexError.
Mut_TrackerInTolerance_Default(class, above, levels, height) ==
    IF Len(levels) = 0 THEN Returned("in_tolerance", height, FALSE, <<>>)
    ELSE IF class = "one"
         THEN Returned("in_tolerance", height, OneVerdict(above, levels[1], height), <<>>)
         ELSE Returned("in_tolerance", height, TwoVerdict(levels[1], levels[2], height), <<>>)
TrackerInTolerance(class, above, levels, height) ==
    IF class = "one"
    THEN IF Len(levels) < 1
         THEN Raised("in_tolerance", height, "IndexError")
         ELSE Returned("in_tolerance", height, OneVerdict(above, levels[1], height), <<>>)
    ELSE IF Len(levels) < 2
         THEN Raised("in_tolerance", height, "IndexError")
         ELSE Returned("in_tolerance", height, TwoVerdict(levels[1], levels[2], height), <<>>)

\* get_absolute_tolerance_height: one absolute row per tolerance level
AbsoluteToleranceHeights(levels, image_height) ==
    [i \in 1..Len(levels) |-> (image_height * levels[i]) \div MaxHeight]

\* LiquidLevel.in_tolerance(row) with a tracker attached
LiquidLevelInTolerance(class, above, levels, image_height, height) ==
    IF Len(AbsoluteToleranceHeights(levels, image_height)) = 0
    THEN Raised("LiquidLevel.in_tolerance", height, "AttributeError")
    ELSE [TrackerInTolerance(class, above, levels, height)
            EXCEPT !.op = "LiquidLevel.in_tolerance"]

(***************************************************************************)
(* Initial state: a new tracker, a new LiquidLevel holding it.             *)
(***************************************************************************)
InitTracker ==
    /\ tracker_class \in {"one", "two"}
    /\ above_in_tolerance \in (IF tracker_class = "one" THEN BOOLEAN ELSE {FALSE})
    /\ reference_rows = <<>>
    /\ reference_image = "None"
    /\ reference_image_height = 0
    /\ reference_image_width = 0
    /\ tolerance_levels = <<>>

InitLiquidLevel ==
    /\ row = 0
    /\ volumes_list = <<>>
    /\ use_reference = FALSE
    /\ use_tolerance = FALSE
    /\ list_of_frame_points = <<>>
    /\ mask_to_search_inside = "None"
    /\ selected_for = [v \in Volumes |-> NotSelected]
    /\ starts = "none"

\* the level-search fields of a new LiquidLevel (default arguments) with no
\* profile handed to find_max_change_location
InitFinder ==
    /\ liquid_level_array = <<>>
    /\ find_meniscus_minimum = 0
    /\ no_error = FALSE
    /\ aspect_smoothed = <<>>

\* a new LiquidLevelMonitor with a new TryTracker, no measurement under way
InitMonitor ==
    /\ monitor_class = "LiquidLevelMonitor"
    /\ number_of_monitor_liquid_level_replicate_measurements = 3
    /\ application_liquid_level_data = {}
    /\ max_number_of_tries = 0
    /\ try_counter = 0
    /\ pc = "idle"
    /\ number_of_times_to_try = 0
    /\ list_of_percent_diff = <<>>
    /\ consecutive_failures = 0
    /\ attempts = 0

\* a new monitor: the save folder and its sub folders are created, no json file
\* is set up; True is the save_folder_bool of AutomatedCPCDualPumps, False that
\* of the other classes
InitLog ==
    /\ clock = 0
    /\ save_folder_bool = TRUE
    /\ save_folder_on_disk = TRUE
    /\ save_file_on_disk = FALSE
    /\ liquid_level_data_file = {}
    /\ application_liquid_level_data_save_file_path = "None"

\* run() has not been called; the pumps are not running
InitRun ==
    /\ run_pc = "idle"
    /\ run_experiment = TRUE
    /\ pause_experiment = FALSE
    /\ pumps_are_running = FALSE
    /\ dispense_pump = "stopped"
    /\ withdraw_pump = "stopped"
    /\ pending_error = ""
    /\ stop_commands = {}
    /\ do_not_try_again_calls = 0
    /\ fail_safe_tripped = FALSE

\* a new LiquidLevel holds no image
InitImages ==
    /\ all_images_with_lines = <<>>
    /\ all_images_no_lines = <<>>
    /\ all_images_edge = <<>>
    /\ all_images_bw = <<>>

InitApplication == InitLog /\ InitRun /\ InitImages

Init ==
    /\ InitTracker
    /\ InitLiquidLevel
    /\ InitFinder
    /\ InitMonitor
    /\ df = <<>>
    /\ InitApplication
    /\ ret = NoCall

(***************************************************************************)
(* TrackLiquidToleranceLevels: operations.                                 *)
(***************************************************************************)
\* the tracker as reset() leaves it
Mut_ResetTracker_KeepsTolerance ==
    /\ reference_rows' = <<>>
    /\ reference_image' = "None"
    /\ reference_image_height' = 0
    /\ reference_image_width' = 0
    /\ UNCHANGED <<tracker_class, above_in_tolerance, tolerance_levels>>
ResetTracker ==
    /\ reference_rows' = <<>>
    /\ reference_image' = "None"
    /\ reference_image_height' = 0
    /\ reference_image_width' = 0
    /\ tolerance_levels' = <<>>
    /\ UNCHANGED <<tracker_class, above_in_tolerance>>

Reset ==
    /\ ResetTracker
    /\ ret' = Returned("reset", 0, FALSE, <<>>)
    /\ UNCHANGED <<llVars, df, liquid_level_array, findVars, monVars, appVars>>

ResetReference ==
    /\ reference_rows' = <<>>
    /\ reference_image' = "None"
    /\ reference_image_height' = 0
    /\ reference_image_width' = 0
    /\ ret' = NoCall
    /\ UNCHANGED <<tracker_class, above_in_tolerance, tolerance_levels>>
    /\ UNCHANGED <<llVars, df, liquid_level_array, findVars, monVars, appVars>>

SetReferenceLevel(height) ==
    /\ Len(reference_rows) < MaxRefs
    /\ reference_rows' = Append(reference_rows, height)
    /\ ret' = NoCall
    /\ UNCHANGED <<tracker_class, above_in_tolerance, reference_image,
                   reference_image_height, reference_image_width, tolerance_levels>>
    /\ UNCHANGED <<llVars, df, liquid_level_array, findVars, monVars, appVars>>

SelectReferenceRow(image, line_height) ==
    /\ Len(reference_rows) < MaxRefs
    /\ reference_image' = image
    /\ reference_image_height' = ImageHeight(image)
    /\ reference_image_width' = ImageWidth(image)
    /\ reference_rows' =
           Append(reference_rows, RelativeLineHeight(line_height, ImageHeight(image)))
    /\ ret' = NoCall
    /\ UNCHANGED <<tracker_class, above_in_tolerance, tolerance_levels>>
    /\ UNCHANGED <<llVars, df, liquid_level_array, findVars, monVars, appVars>>

\* set_tolerance_levels: the one-level tracker keeps height_1 only
SetToleranceLevels(height_1, height_2) ==
    /\ tolerance_levels' =
           IF tracker_class = "one" THEN <<height_1>> ELSE <<height_1, height_2>>
    /\ ret' = NoCall
    /\ UNCHANGED <<tracker_class, above_in_tolerance, reference_rows, reference_image,
                   reference_image_height, reference_image_width>>
    /\ UNCHANGED <<llVars, df, liquid_level_array, findVars, monVars, appVars>>

\* select_tolerance: both subclasses first record the size of the image.  The
\* two-level tracker then takes two clicks; the one-level tracker calls
\* select_one_line without its description argument, which raises TypeError
\* before a level is stored.
SelectTolerance(image, line_one_height, line_two_height) ==
    /\ reference_image_height' = ImageHeight(image)
    /\ reference_image_width' = ImageWidth(image)
    /\ IF tracker_class = "one"
       THEN /\ tolerance_levels' = tolerance_levels
            /\ ret' = Raised("select_tolerance", 0, "TypeError")
       ELSE /\ tolerance_levels' =
                   << RelativeLineHeight(line_one_height, ImageHeight(image)),
                      RelativeLineHeight(line_two_height, ImageHeight(image)) >>
            /\ ret' = NoCall
    /\ UNCHANGED <<tracker_class, above_in_tolerance, reference_rows, reference_image>>
    /\ UNCHANGED <<llVars, df, liquid_level_array, findVars, monVars, appVars>>

InTolerance(height) ==
    /\ ret' = TrackerInTolerance(tracker_class, above_in_tolerance, tolerance_levels, height)
    /\ UNCHANGED <<trackerVars, llVars, df, liquid_level_array, findVars, monVars, appVars>>

DistanceFromReference(height) ==
    /\ ret' = Returned("distance_from_reference", height, FALSE,
                       DistanceList(reference_rows, height))
    /\ UNCHANGED <<trackerVars, llVars, df, liquid_level_array, findVars, monVars, appVars>>

\* LiquidLevel.in_tolerance(row=height) on a LiquidLevel that holds the tracker
LLInTolerance(height) ==
    /\ ret' = LiquidLevelInTolerance(tracker_class, above_in_tolerance, tolerance_levels,
                                     reference_image_height, height)
    /\ UNCHANGED <<trackerVars, llVars, df, liquid_level_array, findVars, monVars, appVars>>

\* LiquidLevel.reset_region_of_interest: clears the selection and resets the tracker
ResetRegionOfInterest ==
    /\ list_of_frame_points' = <<>>
    /\ mask_to_search_inside' = "None"
    /\ ResetTracker
    /\ ret' = Returned("reset_region_of_interest", 0, FALSE, <<>>)
    /\ UNCHANGED <<row, volumes_list, use_reference, use_tolerance, selected_for, starts, df, liquid_level_array, findVars, monVars, appVars>>

Next ==
    \/ Reset
    \/ ResetReference
    \/ ResetRegionOfInterest
    \/ \E h \in Heights : SetReferenceLevel(h)
    \/ \E image \in Images : \E y \in ClickableRows(image) : SelectReferenceRow(image, y)
    \/ \E h1 \in Heights : \E h2 \in Heights : SetToleranceLevels(h1, h2)
    \/ \E image \in Images : \E y1 \in ClickableRows(image) : \E y2 \in ClickableRows(image) :
           SelectTolerance(image, y1, y2)
    \/ \E h \in Heights : InTolerance(h)
    \/ \E h \in Heights : DistanceFromReference(h)
    \/ \E h \in Heights : LLInTolerance(h)

Spec == Init /\ [][Next]_vars


(***************************************************************************)
(* Claims about the trackers, checked under Spec.                          *)
(***************************************************************************)
TwoLevelsSet == tracker_class = "two" /\ Len(tolerance_levels) = 2
OneLevelSet == tracker_class = "one" /\ Len(tolerance_levels) = 1

\* C1: after set_tolerance_levels(a, b) with a # b, in either order, the
\* two-level in_tolerance(h) returns True exactly when min(a,b) < h < max(a,b);
\* h = a and h = b return False.
C1_TwoSidedStrictBand ==
    (ret.op = "in_tolerance" /\ TwoLevelsSet /\ tolerance_levels[1] # tolerance_levels[2]) =>
        LET a == tolerance_levels[1]
            b == tolerance_levels[2]
            lo == IF a < b THEN a ELSE b
            hi == IF a < b THEN b ELSE a
        IN /\ ret.raised = ""
           /\ ret.bool = (lo < ret.arg /\ ret.arg < hi)
           /\ (ret.arg = a \/ ret.arg = b) => ret.bool = FALSE

\* C1 witness: the levels were given lower one first (a > b) and a height
\* strictly between them was found in tolerance.
C1_Witness ==
    /\ ret.op = "in_tolerance" /\ TwoLevelsSet
    /\ tolerance_levels[1] > tolerance_levels[2]
    /\ ret.bool = TRUE
    /\ tolerance_levels[2] < ret.arg /\ ret.arg < tolerance_levels[1]

\* C2 as stated: the one-level in_tolerance(h) equals (h < bound) = above_in_tolerance
\* for every h, h = bound included, for both polarities.
C2_Original ==
    (ret.op = "in_tolerance" /\ OneLevelSet) =>
        /\ ret.raised = ""
        /\ ret.bool = ((ret.arg < tolerance_levels[1]) = above_in_tolerance)

\* C2 amended: the one-level in_tolerance(h) is h < bound for polarity 'above'
\* and h > bound for polarity 'below'; h = bound is out of tolerance for both.
C2_OneSidedStrict ==
    (ret.op = "in_tolerance" /\ OneLevelSet) =>
        /\ ret.raised = ""
        /\ above_in_tolerance => (ret.bool = (ret.arg < tolerance_levels[1]))
        /\ ~above_in_tolerance => (ret.bool = (ret.arg > tolerance_levels[1]))
        /\ ret.arg = tolerance_levels[1] => ret.bool = FALSE

\* C2 witness: polarity 'below', queried exactly at the bound.
C2_Witness ==
    /\ ret.op = "in_tolerance" /\ OneLevelSet
    /\ ~above_in_tolerance
    /\ ret.arg = tolerance_levels[1]
    /\ ret.bool = FALSE

\* the verdict the one-level tracker gives for height h in the current state
OneSidedVerdictAt(h) ==
    TrackerInTolerance(tracker_class, above_in_tolerance, tolerance_levels, h).bool

\* C3: with a fixed bound and polarity the one-level verdict is monotonic in h:
\* no h1 < h2 < h3 with verdict(h1) = verdict(h3) # verdict(h2), and the verdict
\* of every height below the bound differs from that of every height above it.
\* The verdict just returned by in_tolerance is the one compared.
C3_OneSidedMonotonic ==
    (ret.op = "in_tolerance" /\ OneLevelSet) =>
        /\ ret.raised = ""
        /\ ret.bool = OneSidedVerdictAt(ret.arg)
        /\ \A h1 \in Heights, h3 \in Heights :
               (h1 < ret.arg /\ ret.arg < h3) =>
                   ~(OneSidedVerdictAt(h1) = OneSidedVerdictAt(h3)
                     /\ OneSidedVerdictAt(h1) # ret.bool)
        /\ \A h \in Heights :
               ((h < tolerance_levels[1] /\ tolerance_levels[1] < ret.arg)
                \/ (ret.arg < tolerance_levels[1] /\ tolerance_levels[1] < h)) =>
                   OneSidedVerdictAt(h) # ret.bool

\* C3 witness: a verdict returned for a height above a bound that has heights
\* on both sides.
C3_Witness ==
    /\ ret.op = "in_tolerance" /\ OneLevelSet
    /\ 0 < tolerance_levels[1] /\ tolerance_levels[1] < ret.arg
    /\ ret.bool = TRUE

C6_NoToleranceIsError ==
    (ret.op \in {"in_tolerance", "LiquidLevel.in_tolerance"} /\ Len(tolerance_levels) = 0) =>
        ret.raised \in {"AttributeError", "IndexError"}

\* C6 witness: the tracker queried directly with nothing set.
C6_Witness ==
    /\ ret.op = "in_tolerance"
    /\ Len(tolerance_levels) = 0
    /\ tracker_class = "two"
    /\ ret.raised = "IndexError"

\* C7: reset() leaves no references, no tolerance bounds, no reference image and
\* image height and width 0, as in a new tracker, whatever came before; a
\* second reset therefore changes nothing.
C7_ResetIsNewTracker ==
    [][ret'.op \in {"reset", "reset_region_of_interest"} =>
          /\ reference_rows' = <<>>
          /\ tolerance_levels' = <<>>
          /\ reference_image' = "None"
          /\ reference_image_height' = 0
          /\ reference_image_width' = 0
          /\ (ret.op = "reset" => UNCHANGED trackerVars)]_vars

\* C7 witness: a reset has just run.
C7_Witness ==
    /\ ret.op = "reset"
    /\ reference_rows = <<>> /\ tolerance_levels = <<>>
    /\ reference_image_height = 0


(***************************************************************************)
(* LiquidLevel driving its tracker: start, run, reset and                  *)
(* distance_from_reference.  The level search of run() is an input here:   *)
(* the relative height it stores in self.row.  The image lists hold the    *)
(* time stamps of their images; the data file of LiquidLevel is not part   *)
(* of this state.                                                          *)
(***************************************************************************)
\* the volume run() uses when none is named
DefaultVolume == "0"
\* volumes_list arguments of start(): lists of distinct volumes
VolumesLists ==
    {<<>>} \cup {<<v>> : v \in Volumes}
           \cup {l \in Volumes \X Volumes : l[1] # l[2]}

\* the two corner clicks of select_region_of_interest that are explored
RegionClicks == << <<0, 0>>, <<1, 1>> >>

\* list.index(x): position of the first x in the list, 0-based; -1 stands for
\* ValueError
IndexOf(list, x) ==
    IF \E i \in 1..Len(list) : list[i] = x
    THEN (CHOOSE i \in 1..Len(list) : list[i] = x /\ \A j \in 1..(i - 1) : list[j] # x) - 1
    ELSE 0 - 1

\* LiquidLevel.distance_from_reference with a tracker attached: reference_rows
\* is a list, never None, so the guard never raises
LiquidLevelDistanceFromReference(rows, current_row) ==
    Returned("LiquidLevel.distance_from_reference", current_row, FALSE,
             DistanceList(rows, current_row))

\* set_reference: one select_reference_row per volume, each appending the
\* relative height of the clicked line
RowsAfterSetReference(rows, image, lines) ==
    rows \o [i \in 1..Len(lines) |-> RelativeLineHeight(lines[i], ImageHeight(image))]

InitLL ==
    /\ InitTracker
    /\ row = 0
    /\ volumes_list = <<>>
    /\ use_reference \in BOOLEAN
    /\ use_tolerance \in BOOLEAN
    /\ list_of_frame_points = <<>>
    /\ mask_to_search_inside = "None"
    /\ selected_for = [v \in Volumes |-> NotSelected]
    /\ starts = "none"
    /\ InitFinder
    /\ InitMonitor
    /\ df = <<>>
    /\ InitApplication
    /\ ret = NoCall

\* the most images all_images_bw holds when start() is called
MaxStartImages == 2

\* start(image, select_region_of_interest, set_reference, volumes_list,
\* select_tolerance); lines[i] is the line clicked for volumes_list[i], y1 and
\* y2 the lines clicked for the tolerance levels
Start(image, select_region_of_interest, set_reference, volumes, lines, select_tolerance, y1, y2) ==
    /\ Len(lines) = (IF set_reference THEN Len(volumes) ELSE 0)
    /\ Len(reference_rows) + Len(lines) <= MaxRefs
    /\ Len(all_images_bw) < MaxStartImages
    /\ IF select_region_of_interest
       THEN /\ list_of_frame_points' = RegionClicks
            /\ mask_to_search_inside' = "set"
       ELSE UNCHANGED <<list_of_frame_points, mask_to_search_inside>>
    /\ reference_rows' = RowsAfterSetReference(reference_rows, image, lines)
    /\ reference_image' = IF Len(lines) > 0 THEN image ELSE reference_image
    /\ selected_for' =
           [v \in Volumes |->
               IF set_reference /\ IndexOf(volumes, v) >= 0
               THEN RelativeLineHeight(lines[IndexOf(volumes, v) + 1], ImageHeight(image))
               ELSE selected_for[v]]
    /\ starts' = IF set_reference /\ starts # "mixed" THEN "ref" ELSE "mixed"
    /\ IF select_tolerance
       THEN /\ reference_image_height' = ImageHeight(image)
            /\ reference_image_width' = ImageWidth(image)
            /\ IF tracker_class = "one"
               THEN \* select_tolerance raises: start() ends before it stores volumes_list
                    /\ UNCHANGED <<tolerance_levels, volumes_list>>
                    /\ ret' = Raised("start", 0, "TypeError")
               ELSE /\ tolerance_levels' =
                           << RelativeLineHeight(y1, ImageHeight(image)),
                              RelativeLineHeight(y2, ImageHeight(image)) >>
                    /\ volumes_list' = volumes
                    /\ ret' = Returned("start", 0, set_reference, <<>>)
       ELSE /\ reference_image_height' =
                   IF Len(lines) > 0 THEN ImageHeight(image) ELSE reference_image_height
            /\ reference_image_width' =
                   IF Len(lines) > 0 THEN ImageWidth(image) ELSE reference_image_width
            /\ UNCHANGED tolerance_levels
            /\ volumes_list' = volumes
            /\ ret' = Returned("start", 0, set_reference, <<>>)
    /\ IF select_tolerance /\ tracker_class = "one"
       THEN UNCHANGED <<all_images_with_lines, all_images_no_lines, all_images_bw>>
       ELSE /\ all_images_with_lines' = Append(all_images_with_lines, clock)
            /\ all_images_no_lines' = Append(all_images_no_lines, clock)
            /\ all_images_bw' = Append(all_images_bw, clock)
    /\ UNCHANGED <<tracker_class, above_in_tolerance, row, use_reference, use_tolerance, df, liquid_level_array, findVars, monVars, logVars, runVars, all_images_edge>>

\* the outcome of run(volume) once the level search has stored current_row
RunOutcome(volume, current_row) ==
    LET tol == LiquidLevelInTolerance(tracker_class, above_in_tolerance, tolerance_levels,
                                      reference_image_height, current_row)
        percent_diff_list == DistanceList(reference_rows, current_row)
        idx == IndexOf(volumes_list, volume)
        tolerance_bool == IF use_tolerance THEN tol.bool ELSE FALSE
    IN IF use_tolerance /\ tol.raised # ""
       THEN [Raised("run", current_row, tol.raised) EXCEPT !.vol = volume]
       ELSE IF ~use_reference
       THEN [Returned("run", current_row, tolerance_bool, <<>>) EXCEPT !.vol = volume]
       ELSE IF idx < 0
       THEN [Raised("run", current_row, "ValueError") EXCEPT !.vol = volume]
       ELSE IF idx + 1 > Len(percent_diff_list)
       THEN [Raised("run", current_row, "IndexError") EXCEPT !.vol = volume]
       ELSE [Returned("run", current_row, tolerance_bool, <<percent_diff_list[idx + 1]>>)
               EXCEPT !.vol = volume]

\* n of run(): the length at which a list of images is cut to its last image
RunImagesLimit == 5
\* list[-1:] once the list holds n entries
KeepLatest(list, n) == IF Len(list) >= n THEN <<list[Len(list)]>> ELSE list

\* run(volume): the level search stores liquid_level_location in self.row, then
\* the tolerance verdict and the distance for the volume are looked up; a call
\* that gets that far adds the image, with lines, without and in black and
\* white, to the three lists and cuts each list that has reached n
Run(volume, liquid_level_location) ==
    /\ Len(liquid_level_array) < MaxLevels
    /\ row' = liquid_level_location
    /\ liquid_level_array' = Append(liquid_level_array, liquid_level_location)
    /\ ret' = RunOutcome(volume, liquid_level_location)
    /\ IF RunOutcome(volume, liquid_level_location).raised = ""
       THEN /\ all_images_with_lines' =
                   KeepLatest(Append(all_images_with_lines, clock), RunImagesLimit)
            /\ all_images_no_lines' =
                   KeepLatest(Append(all_images_no_lines, clock), RunImagesLimit)
            /\ all_images_bw' = KeepLatest(Append(all_images_bw, clock), RunImagesLimit)
       ELSE UNCHANGED <<all_images_with_lines, all_images_no_lines, all_images_bw>>
    /\ UNCHANGED <<trackerVars, volumes_list, use_reference, use_tolerance,
                   list_of_frame_points, mask_to_search_inside, selected_for, starts,
                   df, findVars, monVars, logVars, runVars, all_images_edge>>

\* LiquidLevel.reset(): resets the tracker, the region of interest and the row,
\* and empties all_images_with_lines, all_images_no_lines and all_images_edge;
\* volumes_list and all_images_bw are left as they are
LLReset ==
    /\ ResetTracker
    /\ list_of_frame_points' = <<>>
    /\ mask_to_search_inside' = "None"
    /\ row' = 0
    /\ liquid_level_array' = <<>>
    /\ selected_for' = [v \in Volumes |-> NotSelected]
    /\ starts' = "none"
    /\ all_images_with_lines' = <<>>
    /\ all_images_no_lines' = <<>>
    /\ all_images_edge' = <<>>
    /\ ret' = Returned("LiquidLevel.reset", 0, FALSE, <<>>)
    /\ UNCHANGED <<volumes_list, use_reference, use_tolerance, df, findVars, monVars,
                   logVars, runVars, all_images_bw>>

LLDistanceFromReference ==
    /\ ret' = LiquidLevelDistanceFromReference(reference_rows, row)
    /\ UNCHANGED <<trackerVars, llVars, df, liquid_level_array, findVars, monVars, appVars>>

\* the lines clicked for a list of n volumes
LineLists(image, n) == [1..n -> ClickableRows(image)]

\* the two lines clicked for the tolerance levels in start(): the lowest and
\* the highest clickable row, in either order
ToleranceClicks(image) ==
    LET rows == ClickableRows(image)
        lowest == CHOOSE y \in rows : \A z \in rows : y <= z
        highest == CHOOSE y \in rows : \A z \in rows : y >= z
    IN {<<lowest, highest>>, <<highest, lowest>>}

\* start() is explored with the image the camera takes
CameraImages == {"imgB"}

NextLL ==
    \/ \E image \in CameraImages, volumes \in VolumesLists :
           \E lines \in LineLists(image, Len(volumes)) :
               Start(image, TRUE, TRUE, volumes, lines, FALSE, 0, 0)
    \/ \E image \in CameraImages, volumes \in VolumesLists :
           \E clicks \in ToleranceClicks(image) :
               Start(image, TRUE, FALSE, volumes, <<>>, TRUE, clicks[1], clicks[2])
    \/ \E volume \in Volumes \cup {DefaultVolume}, level \in Heights : Run(volume, level)
    \/ LLReset
    \/ LLDistanceFromReference

SpecLL == InitLL /\ [][NextLL]_vars

(***************************************************************************)
(* Claims about LiquidLevel and its tracker, checked under SpecLL.         *)
(***************************************************************************)
\* C5: asking for the distance from the reference while no reference is set (a
\* new tracker, or after reset()) fails with a no-reference error and returns
\* no value, on the tracker and through LiquidLevel.distance_from_reference.
C5_NoReferenceIsError ==
    (ret.op \in {"distance_from_reference", "LiquidLevel.distance_from_reference"}
     /\ Len(reference_rows) = 0) =>
        ret.raised # ""

\* C8: after start(set_reference=True, volumes_list=V) calls without a reset in
\* between, the tracker holds one reference per entry of the current
\* volumes_list, and the distance run(volume=v) returns is the distance to the
\* reference selected last for v.
C8_OneReferencePerVolume ==
    (starts = "ref") =>
        /\ (ret.op = "start" /\ ret.raised = "") =>
               Len(reference_rows) = Len(volumes_list)
        /\ (ret.op = "run" /\ ret.raised = "" /\ use_reference) =>
               ret.list = <<selected_for[ret.vol] - row>>


(***************************************************************************)
(* The measurement aggregation of LiquidLevelMonitor.monitor_liquid_level: *)
(* reject_outliers_modified_z followed by the mean of what is kept.        *)
(* A sample is an integer number of units; one unit is a tenth of the      *)
(* 0.001 that replaces a zero median absolute deviation.  Medians of       *)
(* even-length lists fall on half units, so the median is carried doubled  *)
(* and the median absolute deviation four-fold.                            *)
(***************************************************************************)
\* the longest list of samples explored
MaxSamples == 5

\* 0.6745, as ZNumerator / ZDenominator
ZNumerator == 6745
ZDenominator == 10000
\* 0.001, as 1 / EpsilonDenominator
EpsilonDenominator == 1000
\* threshold=1, the default of LiquidLevelMonitor.reject_outliers_modified_z
ZThreshold == 1

UnitsPerOne == 10 * EpsilonDenominator
\* 0.001 in units
Epsilon == UnitsPerOne \div EpsilonDenominator

\* the sample values explored: 0.10, 0.1005, 0.90 and -0.70
SampleValues == {0 - 7000, 1000, 1005, 9000}
SampleLists == UNION {[1..n -> SampleValues] : n \in 0..MaxSamples}

Abs(x) == IF x < 0 THEN 0 - x ELSE x

RECURSIVE Sum(_)
Sum(list) == IF Len(list) = 0 THEN 0 ELSE list[1] + Sum(Tail(list))

\* the k-th smallest entry of a non-empty list (k from 1)
KthSmallest(list, k) ==
    CHOOSE v \in {list[i] : i \in 1..Len(list)} :
        /\ Cardinality({i \in 1..Len(list) : list[i] < v}) < k
        /\ Cardinality({i \in 1..Len(list) : list[i] <= v}) >= k

\* twice np.median of a non-empty list
Median2(list) ==
    LET n == Len(list)
    IN IF n % 2 = 1
       THEN 2 * KthSmallest(list, (n + 1) \div 2)
       ELSE KthSmallest(list, n \div 2) + KthSmallest(list, n \div 2 + 1)

\* twice (i - median), for every sample
Deviations2(list) == [i \in 1..Len(list) |-> 2 * list[i] - Median2(list)]

\* four times the median absolute deviation, after 0 has been replaced by 0.001
Mut_Mad4_NoEpsilon(list) ==
    Median2([i \in 1..Len(list) |-> Abs(Deviations2(list)[i])])
Mad4(list) ==
    LET median_absolute_deviation4 ==
            Median2([i \in 1..Len(list) |-> Abs(Deviations2(list)[i])])
    IN IF median_absolute_deviation4 = 0 THEN 4 * Epsilon ELSE median_absolute_deviation4

\* abs(modified z-score of sample i) < threshold, with
\* z = 0.6745 * (i - median) / median_absolute_deviation
Mut_ZBelow_Signed(list, i, threshold) ==
    ZNumerator * 2 * Deviations2(list)[i] < ZDenominator * threshold * Mad4(list)
ZBelow(list, i, threshold) ==
    ZNumerator * 2 * Abs(Deviations2(list)[i]) < ZDenominator * threshold * Mad4(list)

\* the entries of list at the positions in keep, in order
RECURSIVE Select(_, _, _)
Select(list, i, threshold) ==
    IF i > Len(list) THEN <<>>
    ELSE (IF ZBelow(list, i, threshold) THEN <<list[i]>> ELSE <<>>)
         \o Select(list, i + 1, threshold)

\* reject_outliers_modified_z(df, threshold).  The median of an empty list is
\* nan and nothing is kept.
RejectOutliersModifiedZ(list, threshold) ==
    IF Len(list) = 0 THEN <<>> ELSE Select(list, 1, threshold)

\* threshold=50, the default of the filter local to
\* AutomatedCPCDualPumps.monitor_liquid_level
DualPumpsZThreshold == 50

\* value < threshold in the dual-pump filter, where value is the modified
\* z-score itself: 0.6745 * (i - median) / median_absolute_deviation < threshold.
\* For integers, n < k * m is the same as floor(n / k) < m; the quotient keeps
\* the products small.
ZBelowDualPumps(list, i, threshold) ==
    (ZNumerator * 2 * Deviations2(list)[i]) \div (ZDenominator * threshold) < Mad4(list)

RECURSIVE SelectDualPumps(_, _, _)
SelectDualPumps(list, i, threshold) ==
    IF i > Len(list) THEN <<>>
    ELSE (IF ZBelowDualPumps(list, i, threshold) THEN <<list[i]>> ELSE <<>>)
         \o SelectDualPumps(list, i + 1, threshold)

\* reject_outliers_modified_z(df, threshold) of the dual-pump monitor
RejectOutliersModifiedZDualPumps(list, threshold) ==
    IF Len(list) = 0 THEN <<>> ELSE SelectDualPumps(list, 1, threshold)

\* monitor_liquid_level up to the average: reject the outliers, then sum what
\* is kept and divide by its length
Mut_AggregateOutcome_EmptyIsZero(list) ==
    LET keep == RejectOutliersModifiedZ(list, ZThreshold)
    IN [Returned("aggregate", 0, FALSE, keep)
          EXCEPT !.num = Sum(keep), !.den = IF Len(keep) = 0 THEN 1 ELSE Len(keep)]
AggregateOutcome(list) ==
    LET keep == RejectOutliersModifiedZ(list, ZThreshold)
    IN IF Len(keep) = 0
       THEN Raised("aggregate", 0, "ZeroDivisionError")
       ELSE [Returned("aggregate", 0, FALSE, keep)
               EXCEPT !.num = Sum(keep), !.den = Len(keep)]

InitAgg ==
    /\ tracker_class = "two"
    /\ above_in_tolerance = FALSE
    /\ reference_rows = <<>>
    /\ reference_image = "None"
    /\ reference_image_height = 0
    /\ reference_image_width = 0
    /\ tolerance_levels = <<>>
    /\ InitLiquidLevel
    /\ InitFinder
    /\ InitMonitor
    /\ df \in SampleLists
    /\ InitApplication
    /\ ret = NoCall

\* reject_outliers_modified_z(df) called on its own
RejectOutliers ==
    /\ ret' = Returned("reject_outliers_modified_z", 0, FALSE,
                       RejectOutliersModifiedZ(df, ZThreshold))
    /\ UNCHANGED <<trackerVars, llVars, df, liquid_level_array, findVars, monVars, appVars>>

\* the aggregation of monitor_liquid_level(list_of_percent_diff=df)
Aggregate ==
    /\ ret' = AggregateOutcome(df)
    /\ UNCHANGED <<trackerVars, llVars, df, liquid_level_array, findVars, monVars, appVars>>

\* the whole of LiquidLevelMonitor.monitor_liquid_level(list_of_percent_diff):
\* after the average it asks the tracker for get_absolute_reference_height(),
\* which no tracker class defines, so the call ends in AttributeError before
\* the verdict is computed and before application_liquid_level_data is written
MonitorLiquidLevelOutcome(list) ==
    LET average == AggregateOutcome(list)
    IN IF average.raised # ""
       THEN Raised("monitor_liquid_level", 0, average.raised)
       ELSE [Raised("monitor_liquid_level", 0, "AttributeError")
               EXCEPT !.list = average.list, !.num = average.num, !.den = average.den]

\* monitor_liquid_level(list_of_percent_diff=df)
MonitorLiquidLevel ==
    /\ ret' = MonitorLiquidLevelOutcome(df)
    /\ UNCHANGED application_liquid_level_data
    /\ UNCHANGED <<trackerVars, llVars, df, liquid_level_array, findVars,
                   monitor_class, number_of_monitor_liquid_level_replicate_measurements,
                   max_number_of_tries, try_counter, pc, number_of_times_to_try,
                   list_of_percent_diff, consecutive_failures, attempts, appVars>>

\* the filter of AutomatedCPCDualPumps.monitor_liquid_level applied to df
RejectOutliersDualPumps ==
    /\ ret' = Returned("AutomatedCPCDualPumps.reject_outliers_modified_z", 0, FALSE,
                       RejectOutliersModifiedZDualPumps(df, DualPumpsZThreshold))
    /\ UNCHANGED <<trackerVars, llVars, df, liquid_level_array, findVars, monVars, appVars>>

NextAgg ==
    \/ RejectOutliers
    \/ Aggregate
    \/ MonitorLiquidLevel
    \/ RejectOutliersDualPumps

SpecAgg == InitAgg /\ [][NextAgg]_vars

(***************************************************************************)
(* Claims about the aggregation, checked under SpecAgg.                    *)
(***************************************************************************)
AllSamplesEqual(x) == \A i \in 1..Len(df) : df[i] = x
\* more than half of the samples equal m
StrictMajority(m) == 2 * Cardinality({i \in 1..Len(df) : df[i] = m}) > Len(df)
\* the modified z-score of a sample x is >= 1 when the median is m and the
\* median absolute deviation 0: 0.6745 * |x - m| / 0.001 >= 1
ZAtLeastOne(x, m) == ZNumerator * Abs(x - m) >= ZDenominator * ZThreshold * Epsilon

AbsZBelow(list, i, threshold) ==
    (ZNumerator * 2 * Abs(Deviations2(list)[i])) \div (ZDenominator * threshold) < Mad4(list)

\* the samples of list from position i on whose |z| is below the threshold
RECURSIVE WithinThreshold(_, _, _)
WithinThreshold(list, i, threshold) ==
    IF i > Len(list) THEN <<>>
    ELSE (IF AbsZBelow(list, i, threshold) THEN <<list[i]>> ELSE <<>>)
         \o WithinThreshold(list, i + 1, threshold)

\* C11: the outlier filter of the dual-pump monitor keeps exactly the samples
\* whose modified z-score satisfies |z| < threshold, so a sample far below the
\* median is discarded just as one equally far above it.
C11_DualPumpsFilterTwoSided ==
    (ret.op = "AutomatedCPCDualPumps.reject_outliers_modified_z" /\ Len(df) > 0) =>
        ret.list = WithinThreshold(df, 1, DualPumpsZThreshold)

MaxTries == 2
\* the largest number_of_monitor_liquid_level_replicate_measurements explored
MaxReplicates == 3

\* the distances a measurement returns: 0.10 and 0.90
MeasuredPercentDiffs == {1000, 9000}

MonitorClasses == {"LiquidLevelMonitor", "AutomatedCPCDualPumps"}

\* the public operation that runs the loop, per class
LoopOperation(class) ==
    IF class = "LiquidLevelMonitor"
    THEN "take_multiple_photos_and_run_liquid_level"
    ELSE "AutomatedCPCDualPumps.monitor_liquid_level"

\* TryTracker.not_reached_maximum_number_of_tries
Mut_NotReachedMaximumNumberOfTries_Always(counter, maximum) == TRUE
NotReachedMaximumNumberOfTries(counter, maximum) == counter < maximum

\* iterations left after a successful measurement: the while loop counts the
\* success down, the for loop has used one of its iterations
RemainingAfterSuccess(class, remaining) == remaining - 1

\* iterations left after a failed measurement that is tried again: the while loop
\* of LiquidLevelMonitor leaves its count alone; the for loop of
\* AutomatedCPCDualPumps runs over range(number_of_times_to_try), evaluated once,
\* so the "number_of_times_to_try += 1" of its handler does not lengthen it
Mut_RemainingAfterFailure_Consumed(class, remaining) == remaining - 1
RemainingAfterFailure(class, remaining) ==
    IF class = "LiquidLevelMonitor" THEN remaining ELSE remaining - 1

\* the rest of AutomatedCPCDualPumps.monitor_liquid_level once the loop is over:
\* filter, average (a division by the number kept), then the call of
\* get_absolute_reference_height(), which no tracker class defines
DualPumpsAggregateOutcome(list) ==
    LET keep == RejectOutliersModifiedZDualPumps(list, DualPumpsZThreshold)
    IN IF Len(keep) = 0
       THEN Raised("AutomatedCPCDualPumps.monitor_liquid_level", 0, "ZeroDivisionError")
       ELSE [Raised("AutomatedCPCDualPumps.monitor_liquid_level", 0, "AttributeError")
               EXCEPT !.list = keep, !.num = Sum(keep), !.den = Len(keep)]

InitMon ==
    /\ tracker_class = "two"
    /\ above_in_tolerance = FALSE
    /\ reference_rows = <<>>
    /\ reference_image = "None"
    /\ reference_image_height = 0
    /\ reference_image_width = 0
    /\ tolerance_levels = <<>>
    /\ InitLiquidLevel
    /\ InitFinder
    /\ df = <<>>
    /\ monitor_class \in MonitorClasses
    /\ number_of_monitor_liquid_level_replicate_measurements \in 1..MaxReplicates
    /\ application_liquid_level_data = {}
    /\ max_number_of_tries \in 0..MaxTries
    /\ try_counter = 0
    /\ pc = "idle"
    /\ number_of_times_to_try = 0
    /\ list_of_percent_diff = <<>>
    /\ consecutive_failures = 0
    /\ attempts = 0
    /\ InitApplication
    /\ ret = NoCall

monConfig == <<monitor_class, number_of_monitor_liquid_level_replicate_measurements,
               application_liquid_level_data, max_number_of_tries>>
notMonitor == <<trackerVars, llVars, liquid_level_array, findVars, df, logVars, imageVars,
                run_pc, run_experiment, pause_experiment, pumps_are_running,
                dispense_pump, withdraw_pump, pending_error, stop_commands,
                fail_safe_tripped>>

\* the loop is entered: an empty list and the configured number of iterations
StartMeasurements ==
    /\ pc = "idle"
    /\ pc' = "collecting"
    /\ number_of_times_to_try' = number_of_monitor_liquid_level_replicate_measurements
    /\ list_of_percent_diff' = <<>>
    /\ attempts' = 0
    /\ do_not_try_again_calls' = 0
    /\ ret' = NoCall
    /\ UNCHANGED <<monConfig, notMonitor, try_counter, consecutive_failures>>

\* a picture is taken and the level is found: the try counter is reset and the
\* distance is appended
MeasurementFound(percent_diff) ==
    /\ pc = "collecting"
    /\ number_of_times_to_try > 0
    /\ try_counter' = 0
    /\ list_of_percent_diff' = Append(list_of_percent_diff, percent_diff)
    /\ number_of_times_to_try' = RemainingAfterSuccess(monitor_class, number_of_times_to_try)
    /\ consecutive_failures' = 0
    /\ attempts' = attempts + 1
    /\ UNCHANGED <<monConfig, notMonitor, pc, do_not_try_again_calls, ret>>

\* a picture is taken and NoMeniscusFound is raised: check_if_should_try_again
\* either counts the try (try_again) or raises the error again (do_not_try_again),
\* which ends the loop and the operation
MeasurementNoMeniscusFound ==
    /\ pc = "collecting"
    /\ number_of_times_to_try > 0
    /\ consecutive_failures' = Min(consecutive_failures + 1, MaxTries + 2)
    /\ attempts' = attempts + 1
    /\ IF NotReachedMaximumNumberOfTries(try_counter, max_number_of_tries)
       THEN /\ try_counter' = try_counter + 1
            /\ number_of_times_to_try' =
                   RemainingAfterFailure(monitor_class, number_of_times_to_try)
            /\ UNCHANGED <<pc, do_not_try_again_calls, ret>>
       ELSE /\ pc' = "idle"
            /\ do_not_try_again_calls' = do_not_try_again_calls + 1
            /\ ret' = Raised(LoopOperation(monitor_class), 0, "NoMeniscusFound")
            /\ UNCHANGED <<try_counter, number_of_times_to_try>>
    /\ UNCHANGED <<monConfig, notMonitor, list_of_percent_diff>>

\* a picture is taken and the call ends in an exception that is not
\* NoMeniscusFound (the TypeError of liquid_level.run(image=image)): no handler
\* of the loop catches it
MeasurementOtherError ==
    /\ pc = "collecting"
    /\ number_of_times_to_try > 0
    /\ pc' = "idle"
    /\ attempts' = attempts + 1
    /\ ret' = Raised(LoopOperation(monitor_class), 0, "TypeError")
    /\ UNCHANGED <<monConfig, notMonitor, try_counter, number_of_times_to_try,
                   list_of_percent_diff, consecutive_failures, do_not_try_again_calls>>

\* the while loop of take_multiple_photos_and_run_liquid_level is over: the
\* list is returned
ReturnMeasurements ==
    /\ pc = "collecting"
    /\ monitor_class = "LiquidLevelMonitor"
    /\ number_of_times_to_try = 0
    /\ pc' = "idle"
    /\ ret' = Returned(LoopOperation(monitor_class), 0, FALSE, list_of_percent_diff)
    /\ UNCHANGED <<monConfig, notMonitor, try_counter, number_of_times_to_try,
                   list_of_percent_diff, consecutive_failures, attempts,
                   do_not_try_again_calls>>

\* the for loop of AutomatedCPCDualPumps.monitor_liquid_level is over: the list
\* goes to the aggregation
AggregateDualPumps ==
    /\ pc = "collecting"
    /\ monitor_class = "AutomatedCPCDualPumps"
    /\ number_of_times_to_try = 0
    /\ pc' = "idle"
    /\ ret' = DualPumpsAggregateOutcome(list_of_percent_diff)
    /\ UNCHANGED <<monConfig, notMonitor, try_counter, number_of_times_to_try,
                   list_of_percent_diff, consecutive_failures, attempts,
                   do_not_try_again_calls>>

NextMon ==
    \/ StartMeasurements
    \/ \E percent_diff \in MeasuredPercentDiffs : MeasurementFound(percent_diff)
    \/ MeasurementNoMeniscusFound
    \/ MeasurementOtherError
    \/ ReturnMeasurements
    \/ AggregateDualPumps

SpecMon == InitMon /\ [][NextMon]_vars

(***************************************************************************)
(* Claims about the measurement loops, checked under SpecMon.              *)
(***************************************************************************)
\* the loop has given up: do_not_try_again raised NoMeniscusFound again
GaveUp == ret.raised = "NoMeniscusFound"

\* C13: with max_number_of_tries = N the run gives up (NoMeniscusFound raised
\* again) at the N-th consecutive failed level search, fewer than N consecutive
\* failures never make it give up, and a successful search resets the count to 0.
C13_GivesUpAtNthFailure ==
    /\ GaveUp => consecutive_failures >= max_number_of_tries
    /\ (max_number_of_tries >= 1 /\ consecutive_failures >= max_number_of_tries) => GaveUp
    /\ (consecutive_failures = 0) => try_counter = 0

\* C14: when take_multiple_photos_and_run_liquid_level returns normally, the
\* list holds exactly number_of_monitor_liquid_level_replicate_measurements
\* measurements, each from a picture of its own, however many failed attempts
\* came in between.
C14_ReturnsConfiguredCount ==
    (ret.op = "take_multiple_photos_and_run_liquid_level" /\ ret.raised = "") =>
        /\ Len(ret.list) = number_of_monitor_liquid_level_replicate_measurements
        /\ Len(ret.list) <= attempts

\* C14 witness: the list was returned after more pictures than measurements,
\* that is with failed attempts in between.
C14_Witness ==
    /\ ret.op = "take_multiple_photos_and_run_liquid_level"
    /\ ret.raised = ""
    /\ Len(ret.list) = MaxReplicates
    /\ attempts > Len(ret.list)

\* C15: when AutomatedCPCDualPumps.monitor_liquid_level reaches its aggregation
\* it has collected exactly
\* number_of_monitor_liquid_level_replicate_measurements measurements, so the
\* list is never shorter than configured and never empty.
C15_DualPumpsCollectsConfiguredCount ==
    (ret.op = "AutomatedCPCDualPumps.monitor_liquid_level"
     /\ ret.raised \in {"ZeroDivisionError", "AttributeError"}) =>
        /\ Len(list_of_percent_diff) = number_of_monitor_liquid_level_replicate_measurements
        /\ Len(list_of_percent_diff) > 0

(***************************************************************************)
(* LiquidLevel.find_max_change_location from the smoothed profile on: the  *)
(* three differences, the peaks of the absolute second difference, the two *)
(* highest of them, and the largest absolute third difference in between.  *)
(* The Butterworth filter is not modelled: its output, aspect_smoothed, is *)
(* the input here, with integer values and a few rows only (the filter     *)
(* itself needs more than 30).  Python indices start at 0, the positions   *)
(* of a sequence at 1: At(s, i) is s[i] of the code.                       *)
(***************************************************************************)
\* the number of rows of a profile
ProfileLen == 7
\* the values a smoothed profile takes
ProfileValues == {0, 1, 2}

At(s, i) == s[i + 1]

\* numpy.diff
Diff(s) == [k \in 1..(Len(s) - 1) |-> s[k + 1] - s[k]]
\* the list of abs(i) for i in s
AbsoluteValues(s) == [k \in 1..Len(s) |-> Abs(s[k])]

\* scipy.signal.find_peaks(x, height=0)[0] as a set of indices: i is a peak when
\* it is the middle (rounded down) of a run of equal samples l..r, not touching
\* either end of x, with a smaller sample on each side
FindPeaks(x) ==
    {i \in 1..(Len(x) - 2) :
        \E l \in 1..(Len(x) - 2), r \in 1..(Len(x) - 2) :
            /\ l <= r
            /\ i = (l + r) \div 2
            /\ \A k \in l..r : At(x, k) = At(x, l)
            /\ At(x, l - 1) < At(x, l)
            /\ At(x, r + 1) < At(x, r)}

\* sorted(peak_heights, reverse=True)[:2]: the heights of the two highest
\* peaks, equal when the largest height occurs twice
TwoGreatestHeights(x, peaks) ==
    LET first == CHOOSE v \in {At(x, i) : i \in peaks} : \A j \in peaks : At(x, j) <= v
        others == IF Cardinality({i \in peaks : At(x, i) = first}) >= 2
                  THEN peaks
                  ELSE {i \in peaks : At(x, i) # first}
        second == CHOOSE v \in {At(x, i) : i \in others} : \A j \in others : At(x, j) <= v
    IN <<first, second>>

\* i_peaks[np.where(peak_heights == v)[0][0]]: the first peak with height v
FirstPeakWithHeight(x, peaks, v) ==
    CHOOSE i \in peaks : At(x, i) = v /\ \A j \in peaks : At(x, j) = v => i <= j

\* the loop over aspect_smoothed_3deriv_abs: the first index in lowest..highest
\* whose value is the largest there, or 0 when none is greater than 0
MaxIndexBetween(x, lowest, highest) ==
    LET range == {idx \in 0..(Len(x) - 1) : idx >= lowest /\ idx <= highest}
    IN IF \A idx \in range : At(x, idx) <= 0
       THEN 0
       ELSE CHOOSE idx \in range :
                /\ \A j \in range : At(x, j) <= At(x, idx)
                /\ \A j \in range : At(x, j) = At(x, idx) => idx <= j

\* find_max_change_location(rows, aspect, aspect_name) with rows = range(top, ...):
\* the row returned, with the rows of the two peaks the search ran between
\* (h_peaks = index + 2).  An empty profile fails at aspect[0], fewer than two
\* peaks at highest_2_peaks_index[..][0][0].
FindMaxChangeLocation(top, aspect) ==
    IF Len(aspect) = 0 THEN [raised |-> "IndexError", row |-> 0, peak_rows |-> <<>>]
    ELSE
    LET aspect_smoothed_2deriv_abs == AbsoluteValues(Diff(Diff(aspect)))
        aspect_smoothed_3deriv_abs == AbsoluteValues(Diff(Diff(Diff(aspect))))
        i_peaks == FindPeaks(aspect_smoothed_2deriv_abs)
    IN IF Cardinality(i_peaks) < 2
       THEN [raised |-> "IndexError", row |-> 0, peak_rows |-> <<>>]
       ELSE LET heights == TwoGreatestHeights(aspect_smoothed_2deriv_abs, i_peaks)
                one == FirstPeakWithHeight(aspect_smoothed_2deriv_abs, i_peaks, heights[1])
                two == FirstPeakWithHeight(aspect_smoothed_2deriv_abs, i_peaks, heights[2])
                max_i_idx == MaxIndexBetween(aspect_smoothed_3deriv_abs,
                                             Min(one, two), Max(one, two))
            IN [raised |-> "",
                row |-> top + max_i_idx + 3,
                peak_rows |-> <<top + Min(one, two) + 2, top + Max(one, two) + 2>>]

\* the outcome of a call as the record of the last call
FindMaxChangeLocationOutcome(top, aspect) ==
    LET found == FindMaxChangeLocation(top, aspect)
    IN IF found.raised # ""
       THEN Raised("find_max_change_location", 0, found.raised)
       ELSE Returned("find_max_change_location", found.row, FALSE, found.peak_rows)

\* find_maximum_edges_of_mask: the bounding box of the points of the mask,
\* from the initial values of the code when there is no point
MaximumEdgesOfMask(points) ==
    LET xs == {points[k][1] : k \in 1..Len(points)}
        ys == {points[k][2] : k \in 1..Len(points)}
    IN [left |-> IF xs = {} THEN 1000 * 1000 ELSE CHOOSE v \in xs : \A w \in xs : v <= w,
        right |-> IF xs = {} THEN 0 - 1 ELSE CHOOSE v \in xs : \A w \in xs : v >= w,
        top |-> IF ys = {} THEN 1000 * 1000 ELSE CHOOSE v \in ys : \A w \in ys : v <= w,
        bottom |-> IF ys = {} THEN 0 - 1 ELSE CHOOSE v \in ys : \A w \in ys : v >= w]

\* the two corners of a region one column wide whose rows
\* range(top, bottom) are the ProfileLen rows from top on
FramePoints(top) == << <<0, top>>, <<1, top + ProfileLen>> >>
\* the regions explored: from the first row of the image, and from the second
Frames == {FramePoints(top) : top \in {0, 1}}

\* len(range(top_row, bottom_row))
NumberOfRows(points) ==
    LET edges == MaximumEdgesOfMask(points)
    IN IF edges.bottom > edges.top THEN edges.bottom - edges.top ELSE 0

InitPeaks ==
    /\ tracker_class = "two"
    /\ above_in_tolerance = FALSE
    /\ reference_rows = <<>>
    /\ reference_image = "None"
    /\ reference_image_height = 0
    /\ reference_image_width = 0
    /\ tolerance_levels = <<>>
    /\ row = 0
    /\ volumes_list = <<>>
    /\ use_reference = FALSE
    /\ use_tolerance = FALSE
    /\ list_of_frame_points \in Frames \cup {<<>>}
    /\ mask_to_search_inside = (IF list_of_frame_points = <<>> THEN "None" ELSE "set")
    /\ selected_for = [v \in Volumes |-> NotSelected]
    /\ starts = "none"
    /\ liquid_level_array = <<>>
    /\ find_meniscus_minimum = 0
    /\ no_error = FALSE
    /\ aspect_smoothed \in [1..NumberOfRows(list_of_frame_points) -> ProfileValues]
    /\ InitMonitor
    /\ df = <<>>
    /\ InitApplication
    /\ ret = NoCall

\* find_max_change_location(rows, aspect_smoothed, ...) with the rows of the
\* region, as find_liquid_level calls it
CallFindMaxChangeLocation ==
    /\ ret' = FindMaxChangeLocationOutcome(MaximumEdgesOfMask(list_of_frame_points).top,
                                           aspect_smoothed)
    /\ UNCHANGED <<trackerVars, llVars, df, liquid_level_array, findVars, monVars, appVars>>

NextPeaks ==
    CallFindMaxChangeLocation

SpecPeaks == InitPeaks /\ [][NextPeaks]_vars

(***************************************************************************)
(* Claims about find_max_change_location, checked under SpecPeaks.         *)
(***************************************************************************)
\* C18: the row returned lies strictly between the rows of the two highest
\* peaks of the absolute second difference.
C18_RowStrictlyBetweenPeaks ==
    (ret.op = "find_max_change_location" /\ ret.raised = "") =>
        (ret.list[1] < ret.arg /\ ret.arg < ret.list[2])

\* the rows of the search range whose absolute third difference is the largest
\* of the range, for the call recorded in ret
LargestThirdDifferenceRows ==
    LET top == MaximumEdgesOfMask(list_of_frame_points).top
        x == AbsoluteValues(Diff(Diff(Diff(aspect_smoothed))))
        range == {idx \in 0..(Len(x) - 1) :
                     top + idx + 2 >= ret.list[1] /\ top + idx + 2 <= ret.list[2]}
    IN {top + idx + 3 : idx \in {i \in range : \A j \in range : At(x, j) <= At(x, i)}}

\* C20: ties go to the smaller row: of two peaks of equal height the one with
\* the smaller row comes first and the two peaks selected are two distinct
\* rows, and of the rows of the search range with the same largest absolute
\* third difference the smallest is returned.
C20_TiesTowardSmallerRow ==
    (ret.op = "find_max_change_location" /\ ret.raised = "") =>
        /\ ret.list[1] < ret.list[2]
        /\ \A r \in LargestThirdDifferenceRows : ret.arg <= r

\* C19: a profile with fewer than two peaks of the absolute second difference
\* (an empty, constant or single-peak profile) makes the level search report
\* NoMeniscusFound, not an unrelated error.
C19_FewPeaksIsNoMeniscusFound ==
    (ret.op = "find_max_change_location"
     /\ (Len(aspect_smoothed) = 0
         \/ Cardinality(FindPeaks(AbsoluteValues(Diff(Diff(aspect_smoothed))))) < 2)) =>
        ret.raised = "NoMeniscusFound"

(***************************************************************************)
(* LiquidLevel.find_liquid_level with number_of_levels_last_found and      *)
(* reset_row.  An image is its three smoothed channel profiles over the    *)
(* rows of the region and its raw saturation and brightness per row; the   *)
(* level stored is row / img_height, kept here as the row, in units of     *)
(* 1 / img_height.                                                         *)
(***************************************************************************)
\* brightness_below_av > 50
BrightnessMinimum == 50
\* saturation_below_av >= saturation_above_av + 50
SaturationStep == 50

\* a profile that is 0 except for a at row k and b at row k + 1
BumpProfile(k, a, b) ==
    [i \in 1..ProfileLen |-> IF i = k THEN a ELSE IF i = k + 1 THEN b ELSE 0]
\* the smoothed channel profiles of the images explored: a constant one and
\* two with a bump
CameraProfiles == {BumpProfile(1, 0, 0), BumpProfile(3, 2, 1), BumpProfile(4, 1, 2)}

\* the raw pixels of the images explored: no saturation and no brightness
\* above the liquid surface, one value each from the surface down
RawValues == {0, 200}
Scenes == [surface : {4}, saturation : RawValues, brightness : RawValues]
RawSaturation(scene, r) == IF r >= scene.surface THEN scene.saturation ELSE 0
RawBrightness(scene, r) == IF r >= scene.surface THEN scene.brightness ELSE 0

\* find_liquid_level(image) up to liquid_level_location: the three searches in
\* turn (an exception of one ends the call), the averages above and below
\* saturation_row over range(rows[0], saturation_row) and
\* range(saturation_row, rows[-1]), each a division by the number of rows, and
\* the choice between saturation_row and brightness_row
FindLiquidLevelLocation(points, hue, saturation, brightness, scene) ==
    LET edges == MaximumEdgesOfMask(points)
        hue_found == FindMaxChangeLocation(edges.top, hue)
        saturation_found == FindMaxChangeLocation(edges.top, saturation)
        brightness_found == FindMaxChangeLocation(edges.top, brightness)
    IN IF hue_found.raised # "" THEN [raised |-> hue_found.raised, location |-> 0]
       ELSE IF saturation_found.raised # ""
       THEN [raised |-> saturation_found.raised, location |-> 0]
       ELSE IF brightness_found.raised # ""
       THEN [raised |-> brightness_found.raised, location |-> 0]
       ELSE
       LET saturation_row == saturation_found.row
           last_row == edges.bottom - 1
           num_rows_above == saturation_row - edges.top
           num_rows_below == IF last_row > saturation_row THEN last_row - saturation_row ELSE 0
           saturation_above_total ==
               Sum([k \in 1..num_rows_above |-> RawSaturation(scene, edges.top + k - 1)])
           saturation_below_total ==
               Sum([k \in 1..num_rows_below |-> RawSaturation(scene, saturation_row + k - 1)])
           brightness_below_total ==
               Sum([k \in 1..num_rows_below |-> RawBrightness(scene, saturation_row + k - 1)])
       IN IF num_rows_above = 0 \/ num_rows_below = 0
          THEN [raised |-> "ZeroDivisionError", location |-> 0]
          ELSE IF /\ brightness_below_total > BrightnessMinimum * num_rows_below
                  /\ saturation_below_total * num_rows_above >=
                         saturation_above_total * num_rows_below
                         + SaturationStep * num_rows_above * num_rows_below
          THEN [raised |-> "", location |-> saturation_row]
          ELSE [raised |-> "", location |-> brightness_found.row]

\* find_meniscus_minimum in hundredths: the default 0, and 101, which no
\* fraction of pixels reaches
MinimumValues == {0, 101}

InitFind ==
    /\ tracker_class = "two"
    /\ above_in_tolerance = FALSE
    /\ reference_rows = <<>>
    /\ reference_image = "None"
    /\ reference_image_height = 0
    /\ reference_image_width = 0
    /\ tolerance_levels = <<>>
    /\ row = 0
    /\ volumes_list = <<>>
    /\ use_reference = FALSE
    /\ use_tolerance = FALSE
    /\ list_of_frame_points \in Frames \cup {<<>>}
    /\ mask_to_search_inside = (IF list_of_frame_points = <<>> THEN "None" ELSE "set")
    /\ selected_for = [v \in Volumes |-> NotSelected]
    /\ starts = "none"
    /\ liquid_level_array = <<>>
    /\ find_meniscus_minimum \in MinimumValues
    /\ no_error \in BOOLEAN
    /\ aspect_smoothed = <<>>
    /\ InitMonitor
    /\ df = <<>>
    /\ InitApplication
    /\ ret = NoCall

\* find_liquid_level(image): on success the level is stored in self.row and
\* appended to liquid_level_array; find_meniscus_minimum and no_error are not
\* read
FindLiquidLevel(hue, saturation, brightness, scene) ==
    LET found == FindLiquidLevelLocation(list_of_frame_points, hue, saturation,
                                         brightness, scene)
    IN /\ Len(liquid_level_array) < MaxLevels
       /\ IF found.raised # ""
          THEN /\ ret' = Raised("find_liquid_level", 0, found.raised)
               /\ UNCHANGED <<row, liquid_level_array>>
          ELSE /\ row' = found.location
               /\ liquid_level_array' = Append(liquid_level_array, found.location)
               /\ ret' = Returned("find_liquid_level", found.location, FALSE, <<>>)
       /\ UNCHANGED <<trackerVars, volumes_list, use_reference, use_tolerance,
                      list_of_frame_points, mask_to_search_inside, selected_for, starts,
                      df, findVars, monVars, appVars>>

NumberOfLevelsLastFound ==
    /\ ret' = Returned("number_of_levels_last_found", Len(liquid_level_array), FALSE, <<>>)
    /\ UNCHANGED <<trackerVars, llVars, df, liquid_level_array, findVars, monVars, appVars>>

ResetRow ==
    /\ row' = 0
    /\ liquid_level_array' = <<>>
    /\ ret' = Returned("reset_row", 0, FALSE, <<>>)
    /\ UNCHANGED <<trackerVars, volumes_list, use_reference, use_tolerance,
                   list_of_frame_points, mask_to_search_inside, selected_for, starts,
                   df, findVars, monVars, appVars>>

\* the channel profiles of an image over the rows of the region
ChannelProfiles(points) == IF NumberOfRows(points) = 0 THEN {<<>>} ELSE CameraProfiles

NextFind ==
    \/ \E hue \in ChannelProfiles(list_of_frame_points),
          saturation \in ChannelProfiles(list_of_frame_points),
          brightness \in ChannelProfiles(list_of_frame_points),
          scene \in Scenes :
           FindLiquidLevel(hue, saturation, brightness, scene)
    \/ NumberOfLevelsLastFound
    \/ ResetRow

SpecFind == InitFind /\ [][NextFind]_vars

C17_NoLevelRaisesOrReturnsZero ==
    (ret.op = "find_liquid_level" /\ find_meniscus_minimum > 100) =>
        IF no_error
        THEN ret.raised = "" /\ ret.arg = 0
        ELSE ret.raised = "NoMeniscusFound"

(***************************************************************************)
(* LiquidLevel.select_region_of_interest and find_maximum_edges_of_mask.   *)
(* The user's clicks since the last 'r' key are the input; the mask is     *)
(* None, the blank mask of line 616, or the blank mask with the rectangle  *)
(* of the last two clicks drawn on it.                                     *)
(***************************************************************************)
\* the most clicks made before the 'c' key
MaxClicks == 3
\* the pixels clicked
ClickPoints == {<<x, y>> : x \in {0, 1}, y \in {0, 1}}
ClickLists == UNION {[1..n -> ClickPoints] : n \in 0..MaxClicks}

InitRegion ==
    /\ InitTracker
    /\ InitLiquidLevel
    /\ InitFinder
    /\ InitMonitor
    /\ df = <<>>
    /\ InitApplication
    /\ ret = NoCall

\* select_region_of_interest(): the selection is cleared, the clicks are
\* stored as they are made, the 'c' key ends the loop, the blank mask is
\* stored, and the rectangle between the last two clicks is drawn on it; with
\* fewer than two clicks list_of_frame_points[-2] raises IndexError after the
\* clicks and the blank mask were stored
SelectRegionOfInterest(clicks) ==
    /\ list_of_frame_points' = clicks
    /\ IF Len(clicks) < 2
       THEN /\ mask_to_search_inside' = "blank"
            /\ ret' = Raised("select_region_of_interest", Len(clicks), "IndexError")
       ELSE /\ mask_to_search_inside' = "set"
            /\ ret' = Returned("select_region_of_interest", Len(clicks), FALSE, <<>>)
    /\ UNCHANGED <<trackerVars, row, volumes_list, use_reference, use_tolerance,
                   selected_for, starts, df, liquid_level_array, findVars, monVars, appVars>>

\* find_maximum_edges_of_mask(): left, right, top, bottom
FindMaximumEdgesOfMask ==
    LET edges == MaximumEdgesOfMask(list_of_frame_points)
    IN /\ ret' = Returned("find_maximum_edges_of_mask", 0, FALSE,
                          <<edges.left, edges.right, edges.top, edges.bottom>>)
       /\ UNCHANGED <<trackerVars, llVars, df, liquid_level_array, findVars, monVars, appVars>>

NextRegion ==
    \/ \E clicks \in ClickLists : SelectRegionOfInterest(clicks)
    \/ FindMaximumEdgesOfMask
    \/ ResetRegionOfInterest

SpecRegion == InitRegion /\ [][NextRegion]_vars

\* C21: a selection from a single point or from two identical corners is
\* rejected with InvalidRegionError and stores no mask and no points, and the
\* bounding box of every stored selection has right > left and bottom > top.
C21_DegenerateRegionRejected ==
    /\ (ret.op = "select_region_of_interest" /\ ret.raised # "") =>
           /\ ret.raised = "InvalidRegionError"
           /\ mask_to_search_inside = "None"
           /\ list_of_frame_points = <<>>
    /\ (list_of_frame_points # <<>>) =>
           LET edges == MaximumEdgesOfMask(list_of_frame_points)
           IN edges.right > edges.left /\ edges.bottom > edges.top

(***************************************************************************)
(* The json file of the monitor.  run() sets the file up, every monitoring *)
(* cycle that reaches a verdict records the averaged height under the      *)
(* timestamp of the second it ends in, and the finally clause of run()     *)
(* writes the entries held in memory to the file.  With the trackers of    *)
(* this repository no cycle reaches a verdict (get_absolute_reference_     *)
(* height is not defined); the recording step is that of a tracker that    *)
(* provides the method.                                                    *)
(***************************************************************************)
\* the last second explored
MaxClock == 4
\* n of monitor_liquid_level: the entries held in memory before they are written
FlushSize == 5
\* the averaged heights recorded
LoggedHeights == {1, 2}

\* dictionary[key] = value
DictSet(dictionary, key, value) == {e \in dictionary : e[1] # key} \cup {<<key, value>>}

\* update_json_file_with_new_liquid_level_data_values: every entry held in
\* memory is assigned into "liquid_level_data" of the file
UpdateJsonFile(file, dictionary) ==
    {e \in file : \A x \in dictionary : x[1] # e[1]} \cup dictionary

InitLogRuns ==
    /\ InitTracker
    /\ InitLiquidLevel
    /\ InitFinder
    /\ InitMonitor
    /\ df = <<>>
    /\ clock = 0
    /\ save_folder_bool \in BOOLEAN
    /\ save_folder_on_disk = TRUE
    /\ save_file_on_disk = FALSE
    /\ liquid_level_data_file = {}
    /\ application_liquid_level_data_save_file_path = "None"
    /\ InitRun
    /\ InitImages
    /\ ret = NoCall

notLog == <<trackerVars, llVars, liquid_level_array, findVars, df, monitor_class,
            number_of_monitor_liquid_level_replicate_measurements, max_number_of_tries,
            try_counter, pc, number_of_times_to_try, list_of_percent_diff,
            consecutive_failures, attempts, run_experiment, pause_experiment,
            pumps_are_running, dispense_pump, withdraw_pump, pending_error, stop_commands,
            do_not_try_again_calls, fail_safe_tripped, imageVars>>

\* run() is called and reaches its loop: set_up_applications_liquid_level_data_
\* save_file stores the path and opens the file with 'w', "liquid_level_data"
\* being {}.  Without the save folder the open fails, and so does the open of
\* the finally clause: run() ends in FileNotFoundError
LogRunBegins ==
    /\ run_pc = "idle"
    /\ application_liquid_level_data_save_file_path' = "set"
    /\ IF save_folder_on_disk
       THEN /\ save_file_on_disk' = TRUE
            /\ liquid_level_data_file' = {}
            /\ run_pc' = "loop"
            /\ ret' = NoCall
       ELSE /\ ret' = Raised("run", 0, "FileNotFoundError")
            /\ UNCHANGED <<save_file_on_disk, liquid_level_data_file, run_pc>>
    /\ UNCHANGED <<notLog, clock, save_folder_bool, save_folder_on_disk,
                   application_liquid_level_data>>

\* a monitoring cycle of the loop reaches its verdict: the height is stored
\* under the timestamp, and with FlushSize entries in memory they are written to
\* the file and the dictionary is emptied
LogCycleRecords(height) ==
    LET data == DictSet(application_liquid_level_data, clock, height)
    IN /\ run_pc = "loop"
       /\ IF Cardinality(data) >= FlushSize
          THEN /\ liquid_level_data_file' = UpdateJsonFile(liquid_level_data_file, data)
               /\ application_liquid_level_data' = {}
          ELSE /\ application_liquid_level_data' = data
               /\ UNCHANGED liquid_level_data_file
       /\ ret' = Returned("monitor_liquid_level", height, FALSE, <<>>)
       /\ UNCHANGED <<notLog, clock, save_folder_bool, save_folder_on_disk,
                      save_file_on_disk, application_liquid_level_data_save_file_path,
                      run_pc>>

\* run() leaves its loop: the finally clause writes the entries held in memory
\* (they stay in memory) and deletes the save folder when save_folder_bool is
\* False
LogRunEnds ==
    /\ run_pc = "loop"
    /\ run_pc' = "idle"
    /\ IF save_folder_bool
       THEN /\ liquid_level_data_file' =
                   UpdateJsonFile(liquid_level_data_file, application_liquid_level_data)
            /\ UNCHANGED <<save_folder_on_disk, save_file_on_disk>>
       ELSE /\ liquid_level_data_file' = {}
            /\ save_folder_on_disk' = FALSE
            /\ save_file_on_disk' = FALSE
    /\ ret' = Returned("run", 0, FALSE, <<>>)
    /\ UNCHANGED <<notLog, clock, save_folder_bool, application_liquid_level_data,
                   application_liquid_level_data_save_file_path>>

\* a second passes
Tick ==
    /\ clock < MaxClock
    /\ clock' = clock + 1
    /\ UNCHANGED <<notLog, save_folder_bool, save_folder_on_disk, save_file_on_disk,
                   liquid_level_data_file, application_liquid_level_data_save_file_path,
                   application_liquid_level_data, run_pc, ret>>

NextLog ==
    \/ LogRunBegins
    \/ \E height \in LoggedHeights : LogCycleRecords(height)
    \/ LogRunEnds
    \/ Tick

SpecLog == InitLogRuns /\ [][NextLog]_vars

\* C22: an entry written to "liquid_level_data" of the file is in the file with
\* the same height after every later step of the monitor: a later write of the
\* entries in memory, a cycle in the same second, a later run().
C22_LogAppendOnly ==
    [][liquid_level_data_file \subseteq liquid_level_data_file']_vars

(***************************************************************************)
(* The image lists of LiquidLevel under run(), take_photo_add_to_memory(), *)
(* take_photo_find_levels_add_to_memory() and reset_row(); the level found *)
(* in the photo is an input.                                               *)
(***************************************************************************)
\* the longest list of images explored
MaxImages == 51
\* n of add_image_to_memory
MemoryImagesLimit == 50

\* add_image_to_memory(img, img_name, array_to_save_to): the entry is appended
\* to the list handed in; "array_to_save_to = array_to_save_to[-1:]" binds the
\* local name to a new list and leaves the list of the object as it is
AddImageToMemory(list, img_name) == Append(list, img_name)

\* take_photo_add_to_memory(): the photo goes to all_images_no_lines
TakePhotoAddToMemory ==
    /\ Len(all_images_no_lines) < MaxImages
    /\ all_images_no_lines' = AddImageToMemory(all_images_no_lines, clock)
    /\ ret' = Returned("take_photo_add_to_memory", 0, FALSE, <<>>)
    /\ UNCHANGED <<trackerVars, llVars, df, liquid_level_array, findVars, monVars, logVars,
                   runVars, all_images_with_lines, all_images_edge, all_images_bw>>

\* take_photo_find_levels_add_to_memory(): load_and_find_level stores the level
\* (self.row, liquid_level_array), then the image goes to all_images_no_lines,
\* the black and white image to all_images_bw and the drawn image to
\* all_images_with_lines
TakePhotoFindLevelsAddToMemory(liquid_level_location) ==
    /\ Len(liquid_level_array) < MaxLevels
    /\ Len(all_images_no_lines) < MaxImages
    /\ row' = liquid_level_location
    /\ liquid_level_array' = Append(liquid_level_array, liquid_level_location)
    /\ all_images_no_lines' = AddImageToMemory(all_images_no_lines, clock)
    /\ all_images_bw' = AddImageToMemory(all_images_bw, clock)
    /\ all_images_with_lines' = AddImageToMemory(all_images_with_lines, clock)
    /\ ret' = Returned("take_photo_find_levels_add_to_memory", liquid_level_location,
                       FALSE, <<>>)
    /\ UNCHANGED <<trackerVars, volumes_list, use_reference, use_tolerance,
                   list_of_frame_points, mask_to_search_inside, selected_for, starts,
                   df, findVars, monVars, logVars, runVars, all_images_edge>>

NextImages ==
    \/ \E liquid_level_location \in {1} : Run(DefaultVolume, liquid_level_location)
    \/ TakePhotoAddToMemory
    \/ \E liquid_level_location \in {1} : TakePhotoFindLevelsAddToMemory(liquid_level_location)
    \/ ResetRow

SpecImages == Init /\ [][NextImages]_vars

\* C26: none of all_images_with_lines, all_images_no_lines and all_images_bw
\* ever holds more than 50 images, under any sequence of run(),
\* take_photo_add_to_memory() and take_photo_find_levels_add_to_memory().
C26_ImageListsBounded ==
    /\ Len(all_images_with_lines) <= MemoryImagesLimit
    /\ Len(all_images_no_lines) <= MemoryImagesLimit
    /\ Len(all_images_bw) <= MemoryImagesLimit

(***************************************************************************)
(* Claims about LiquidLevel.reset(), checked under SpecLL.                 *)
(***************************************************************************)
\* C23: after reset() the three image lists all_images_with_lines,
\* all_images_no_lines and all_images_bw are empty and the region of interest,
\* the current row and the list of levels are cleared, whatever start() and
\* run() calls came before.
C23_ResetDropsImages ==
    (ret.op = "LiquidLevel.reset") =>
        /\ all_images_with_lines = <<>>
        /\ all_images_no_lines = <<>>
        /\ all_images_bw = <<>>
        /\ list_of_frame_points = <<>>
        /\ mask_to_search_inside = "None"
        /\ row = 0
        /\ liquid_level_array = <<>>

(***************************************************************************)
(* Termination of take_multiple_photos_and_run_liquid_level, checked under *)
(* SpecMon.                                                                *)
(***************************************************************************)
\* what the while loop has left to do at most: for every success still needed,
\* max_number_of_tries failed tries and the success, less the tries already
\* counted
LoopMeasure ==
    number_of_times_to_try * (max_number_of_tries + 1) + (max_number_of_tries - try_counter)

\* C30: take_multiple_photos_and_run_liquid_level terminates for every sequence
\* of found and not-found level searches: every picture that leaves the loop
\* running brings it closer to its end, and the loop ends by returning the
\* configured number of measurements or by raising NoMeniscusFound once the
\* tries are used up (an exception of another kind ends it as well).
C30_LoopTerminates ==
    [][(monitor_class = "LiquidLevelMonitor" /\ pc = "collecting") =>
         IF pc' = "collecting"
         THEN LoopMeasure' < LoopMeasure /\ LoopMeasure' >= 0
         ELSE \/ /\ ret'.raised = ""
                 /\ Len(ret'.list) = number_of_monitor_liquid_level_replicate_measurements
              \/ /\ ret'.raised = "NoMeniscusFound"
                 /\ consecutive_failures' > max_number_of_tries
              \/ ret'.raised = "TypeError"]_vars

\* C30 witness: the loop has ended by giving up after a measurement was found
\* and tries were counted.
C30_Witness ==
    /\ monitor_class = "LiquidLevelMonitor"
    /\ pc = "idle"
    /\ ret.op = "take_multiple_photos_and_run_liquid_level"
    /\ ret.raised = "NoMeniscusFound"
    /\ Len(list_of_percent_diff) >= 1
    /\ attempts >= 3


\* ---------------------------------------------------------------------------
\* run() of LiquidLevelMonitor and of AutomatedCPCDualPumps, with the
\* pause/resume/end calls of the Slack handlers on another thread.
\*
\* run() is followed statement by statement through run_pc; it is called with
\* do_pre_run=False.  pause_the_experiment, resume_experiment and end_experiment
\* are calls of the GUI's Slack handlers on their own thread: each is one step
\* that may fall between any two steps of run().  The measurement loop of a
\* monitoring cycle is the loop of SpecMon.  The liquid_level object and the
\* tracker are the surroundings of the monitor in this specification: the
\* outcome of a picture is an input, and so is whether the tracker provides
\* get_absolute_reference_height() (no tracker of the repository does, so every
\* cycle of the repository as it is ends in AttributeError or earlier) and the
\* verdict it then leads to.  The json file fails to open exactly when it is
\* not on disk.  The pictures and images of the handlers are not followed: run()
\* is reported to end with the exception that ended its loop.
\* ---------------------------------------------------------------------------

BothPumps == {"dispense", "withdraw"}
\* the replicate counts and try limits explored for run()
RunReplicates == {1, 2}
RunMaxTries == {0, 1}
\* the outcomes of take_picture_and_run_liquid_level_algorithm after a self-correction
PictureOutcomes == {"found", "NoMeniscusFound", "TypeError"}

InitRuns ==
    /\ tracker_class = "two"
    /\ above_in_tolerance = FALSE
    /\ reference_rows = <<>>
    /\ reference_image = "None"
    /\ reference_image_height = 0
    /\ reference_image_width = 0
    /\ tolerance_levels = <<>>
    /\ InitLiquidLevel
    /\ InitFinder
    /\ df = <<>>
    /\ monitor_class \in MonitorClasses
    /\ number_of_monitor_liquid_level_replicate_measurements \in RunReplicates
    /\ application_liquid_level_data = {}
    /\ max_number_of_tries \in RunMaxTries
    /\ try_counter = 0
    /\ pc = "idle"
    /\ number_of_times_to_try = 0
    /\ list_of_percent_diff = <<>>
    /\ consecutive_failures = 0
    /\ attempts = 0
    /\ clock = 0
    /\ save_folder_bool \in BOOLEAN
    /\ save_folder_on_disk = TRUE
    /\ save_file_on_disk = FALSE
    /\ liquid_level_data_file = {}
    /\ application_liquid_level_data_save_file_path = "None"
    /\ InitRun
    /\ InitImages
    /\ ret = NoCall

runStatic == <<trackerVars, llVars, liquid_level_array, findVars, df, imageVars,
               monitor_class, number_of_monitor_liquid_level_replicate_measurements,
               max_number_of_tries, clock, save_folder_bool>>
loopVars == <<try_counter, pc, number_of_times_to_try, list_of_percent_diff,
              consecutive_failures, attempts>>
fileVars == <<save_folder_on_disk, save_file_on_disk, liquid_level_data_file,
              application_liquid_level_data_save_file_path>>
pumpVars == <<pumps_are_running, dispense_pump, withdraw_pump, stop_commands>>
flagVars == <<run_experiment, pause_experiment>>

\* run() is called
RunCalled ==
    /\ run_pc = "idle"
    /\ run_pc' = "set_up"
    /\ pending_error' = ""
    /\ stop_commands' = {}
    /\ do_not_try_again_calls' = 0
    /\ fail_safe_tripped' = FALSE
    /\ ret' = NoCall
    /\ UNCHANGED <<runStatic, loopVars, fileVars, flagVars, application_liquid_level_data,
                   pumps_are_running, dispense_pump, withdraw_pump>>

\* set_up_applications_liquid_level_data_save_file: the path is set and the file
\* is opened for writing, which fails when the folder is no longer on disk;
\* AutomatedCPCDualPumps then starts both pumps
RunSetsUp ==
    /\ run_pc = "set_up"
    /\ application_liquid_level_data_save_file_path' = "set"
    /\ IF save_folder_on_disk
       THEN /\ save_file_on_disk' = TRUE
            /\ liquid_level_data_file' = {}
            /\ run_pc' = "loop"
            /\ IF monitor_class = "AutomatedCPCDualPumps"
               THEN /\ dispense_pump' = "running"
                    /\ withdraw_pump' = "running"
                    /\ pumps_are_running' = TRUE
               ELSE UNCHANGED <<dispense_pump, withdraw_pump, pumps_are_running>>
            /\ UNCHANGED pending_error
       ELSE /\ pending_error' = "FileNotFoundError"
            /\ run_pc' = "finally"
            /\ UNCHANGED <<save_file_on_disk, liquid_level_data_file, dispense_pump,
                           withdraw_pump, pumps_are_running>>
    /\ UNCHANGED <<runStatic, loopVars, flagVars, application_liquid_level_data,
                   save_folder_on_disk, stop_commands, do_not_try_again_calls,
                   fail_safe_tripped, ret>>

\* a loop that does not look at run_experiment
Mut_WhileRunExperiment_Always(experiment_runs) == "body"

\* while self.run_experiment is True: ... else: the statement the loop condition
\* leads to
WhileRunExperiment(experiment_runs) == IF experiment_runs THEN "body" ELSE "finally"

\* the loop condition is evaluated; when it is false the else clause returns
\* (LiquidLevelMonitor) or raises the KeyboardInterrupt that run() catches
\* (AutomatedCPCDualPumps)
RunLoopCondition ==
    /\ run_pc = "loop"
    /\ run_pc' = WhileRunExperiment(run_experiment)
    /\ UNCHANGED <<runStatic, loopVars, fileVars, flagVars, pumpVars,
                   application_liquid_level_data, pending_error, do_not_try_again_calls,
                   fail_safe_tripped, ret>>

\* the body of the loop: paused, it sleeps; past the end time, it runs the end
\* sequence and returns; otherwise a monitoring cycle begins
RunBody(after_end_time) ==
    /\ run_pc = "body"
    /\ IF pause_experiment
       THEN /\ run_pc' = "sleep"
            /\ UNCHANGED <<loopVars, do_not_try_again_calls>>
       ELSE IF after_end_time
       THEN /\ run_pc' = "finally"
            /\ UNCHANGED <<loopVars, do_not_try_again_calls>>
       ELSE /\ run_pc' = "cycle"
            /\ pc' = "collecting"
            /\ number_of_times_to_try' = number_of_monitor_liquid_level_replicate_measurements
            /\ list_of_percent_diff' = <<>>
            /\ attempts' = 0
            /\ do_not_try_again_calls' = 0
            /\ UNCHANGED <<try_counter, consecutive_failures>>
    /\ UNCHANGED <<runStatic, fileVars, flagVars, pumpVars, application_liquid_level_data,
                   pending_error, fail_safe_tripped, ret>>

\* time.sleep(30) of the paused loop is over
RunSleeps ==
    /\ run_pc = "sleep"
    /\ run_pc' = "loop"
    /\ UNCHANGED <<runStatic, loopVars, fileVars, flagVars, pumpVars,
                   application_liquid_level_data, pending_error, do_not_try_again_calls,
                   fail_safe_tripped, ret>>


\* a branch that does not look at the fail-safe verdict
Mut_VerdictBranch_NoFailSafe(class, fail_safe_tolerance_bool, tolerance_bool) ==
    IF tolerance_bool THEN "in_tolerance" ELSE "not_in_tolerance"

\* the three-way branch of run() on the verdict of a monitoring cycle: the
\* fail-safe verdict exists in AutomatedCPCDualPumps only and is looked at first
VerdictBranch(class, fail_safe_tolerance_bool, tolerance_bool) ==
    IF class = "AutomatedCPCDualPumps" /\ ~fail_safe_tolerance_bool
    THEN "fail_safe"
    ELSE IF tolerance_bool THEN "in_tolerance" ELSE "not_in_tolerance"

\* what monitor_liquid_level makes of the list its measurement loop returned
\* (the loop of AutomatedCPCDualPumps is part of its monitor_liquid_level)
CycleOutcome ==
    IF monitor_class = "LiquidLevelMonitor" /\ ret.raised = ""
    THEN MonitorLiquidLevelOutcome(ret.list)
    ELSE ret

\* the measurement loop of the cycle is over and monitor_liquid_level ends:
\*  - NoMeniscusFound reaches the handler of run(), which calls
\*    check_if_should_try_again once more;
\*  - with a tracker that provides get_absolute_reference_height() the averaged
\*    height is recorded, the try counter is reset and run() branches on the
\*    verdict;
\*  - any other exception ends the loop of run()
RunCycleEnds(tracker_provides_height, fail_safe_tolerance_bool, tolerance_bool, height) ==
    /\ run_pc = "cycle"
    /\ pc = "idle"
    /\ \E error \in {CycleOutcome.raised} :
          IF error = "NoMeniscusFound"
          THEN /\ IF NotReachedMaximumNumberOfTries(try_counter, max_number_of_tries)
                  THEN /\ try_counter' = try_counter + 1
                       /\ run_pc' = "loop"
                       /\ UNCHANGED <<do_not_try_again_calls, pending_error>>
                  ELSE /\ do_not_try_again_calls' = do_not_try_again_calls + 1
                       /\ pending_error' = "NoMeniscusFound"
                       /\ run_pc' = "finally"
                       /\ UNCHANGED try_counter
               /\ UNCHANGED <<application_liquid_level_data, liquid_level_data_file,
                              fail_safe_tripped>>
          ELSE IF error = "AttributeError" /\ tracker_provides_height
          THEN /\ LET recorded == DictSet(application_liquid_level_data, clock, height)
                  IN IF Cardinality(recorded) >= FlushSize
                     THEN /\ liquid_level_data_file' =
                                 UpdateJsonFile(liquid_level_data_file, recorded)
                          /\ application_liquid_level_data' = {}
                     ELSE /\ application_liquid_level_data' = recorded
                          /\ UNCHANGED liquid_level_data_file
               /\ try_counter' = 0
               /\ fail_safe_tripped' =
                      (monitor_class = "AutomatedCPCDualPumps" /\ ~fail_safe_tolerance_bool)
               /\ run_pc' = VerdictBranch(monitor_class, fail_safe_tolerance_bool, tolerance_bool)
               /\ UNCHANGED <<do_not_try_again_calls, pending_error>>
          ELSE /\ pending_error' = error
               /\ run_pc' = "finally"
               /\ UNCHANGED <<try_counter, do_not_try_again_calls,
                              application_liquid_level_data, liquid_level_data_file,
                              fail_safe_tripped>>
    /\ ret' = NoCall
    /\ UNCHANGED <<runStatic, flagVars, pumpVars, pc, number_of_times_to_try,
                   list_of_percent_diff, consecutive_failures, attempts,
                   save_folder_on_disk, save_file_on_disk,
                   application_liquid_level_data_save_file_path>>

\* if fail_safe_tolerance_bool is False: the pumps are stopped when the monitor
\* holds them to be running, and run() returns
RunFailSafeStops ==
    /\ run_pc = "fail_safe"
    /\ run_pc' = "finally"
    /\ IF pumps_are_running
       THEN /\ dispense_pump' = "stopped"
            /\ withdraw_pump' = "stopped"
            /\ stop_commands' = stop_commands \cup BothPumps
       ELSE UNCHANGED <<dispense_pump, withdraw_pump, stop_commands>>
    /\ UNCHANGED <<runStatic, loopVars, fileVars, flagVars, pumps_are_running,
                   application_liquid_level_data, pending_error, do_not_try_again_calls,
                   fail_safe_tripped, ret>>

\* if tolerance_bool: AutomatedCPCDualPumps starts both pumps again when it
\* holds them to be stopped; advance() is entered
RunInTolerance ==
    /\ run_pc = "in_tolerance"
    /\ run_pc' = "advance"
    /\ IF monitor_class = "AutomatedCPCDualPumps" /\ ~pumps_are_running
       THEN /\ dispense_pump' = "running"
            /\ withdraw_pump' = "running"
            /\ pumps_are_running' = TRUE
       ELSE UNCHANGED <<dispense_pump, withdraw_pump, pumps_are_running>>
    /\ UNCHANGED <<runStatic, loopVars, fileVars, flagVars, stop_commands,
                   application_liquid_level_data, pending_error, do_not_try_again_calls,
                   fail_safe_tripped, ret>>

\* advance() returns: the next iteration
RunAdvanceEnds ==
    /\ run_pc = "advance"
    /\ run_pc' = "loop"
    /\ UNCHANGED <<runStatic, loopVars, fileVars, flagVars, pumpVars,
                   application_liquid_level_data, pending_error, do_not_try_again_calls,
                   fail_safe_tripped, ret>>

\* not_in_tolerance as far as the start of the self-correction:
\* AutomatedCPCDualPumps stops both pumps when it holds them to be running, then
\* pump_self_correct starts the pump of the direction
RunNotInTolerance(direction) ==
    /\ run_pc = "not_in_tolerance"
    /\ IF monitor_class = "AutomatedCPCDualPumps"
       THEN /\ run_pc' = IF direction = "withdraw" THEN "self_correct_withdraw"
                                                   ELSE "self_correct_dispense"
            /\ stop_commands' = IF pumps_are_running THEN stop_commands \cup BothPumps
                                                     ELSE stop_commands
            /\ pumps_are_running' = FALSE
            /\ withdraw_pump' = IF direction = "withdraw" THEN "running"
                                ELSE IF pumps_are_running THEN "stopped" ELSE withdraw_pump
            /\ dispense_pump' = IF direction = "dispense" THEN "running"
                                ELSE IF pumps_are_running THEN "stopped" ELSE dispense_pump
       ELSE /\ run_pc' = "self_correct"
            /\ UNCHANGED pumpVars
    /\ UNCHANGED <<runStatic, loopVars, fileVars, flagVars, application_liquid_level_data,
                   pending_error, do_not_try_again_calls, fail_safe_tripped, ret>>

SelfCorrecting == {"self_correct", "self_correct_withdraw", "self_correct_dispense"}

\* the self-correction is over: its pump is stopped, and the picture taken
\* after it either finds the level, or is counted as a try, or ends the loop
RunSelfCorrectEnds(picture) ==
    /\ run_pc \in SelfCorrecting
    /\ IF run_pc = "self_correct_withdraw"
       THEN /\ withdraw_pump' = "stopped"
            /\ stop_commands' = stop_commands \cup {"withdraw"}
            /\ UNCHANGED dispense_pump
       ELSE IF run_pc = "self_correct_dispense"
       THEN /\ dispense_pump' = "stopped"
            /\ stop_commands' = stop_commands \cup {"dispense"}
            /\ UNCHANGED withdraw_pump
       ELSE UNCHANGED <<dispense_pump, withdraw_pump, stop_commands>>
    /\ IF picture = "found"
       THEN /\ run_pc' = "loop"
            /\ consecutive_failures' = 0
            /\ UNCHANGED <<try_counter, do_not_try_again_calls, pending_error>>
       ELSE IF picture = "NoMeniscusFound"
       THEN /\ consecutive_failures' = Min(consecutive_failures + 1, MaxTries + 2)
            /\ IF NotReachedMaximumNumberOfTries(try_counter, max_number_of_tries)
               THEN /\ try_counter' = try_counter + 1
                    /\ run_pc' = "loop"
                    /\ UNCHANGED <<do_not_try_again_calls, pending_error>>
               ELSE /\ do_not_try_again_calls' = do_not_try_again_calls + 1
                    /\ pending_error' = "NoMeniscusFound"
                    /\ run_pc' = "finally"
                    /\ UNCHANGED try_counter
       ELSE /\ pending_error' = picture
            /\ run_pc' = "finally"
            /\ UNCHANGED <<try_counter, consecutive_failures, do_not_try_again_calls>>
    /\ UNCHANGED <<runStatic, fileVars, flagVars, pumps_are_running, pc,
                   number_of_times_to_try, list_of_percent_diff, attempts,
                   application_liquid_level_data, fail_safe_tripped, ret>>


\* the finally clause of run(): the entries in memory are written to the json
\* file first, and an exception of that call leaves the clause at once; then
\* AutomatedCPCDualPumps sends stop() to each pump, and the save folder is
\* deleted from disk unless it is to be kept
RunFinally ==
    /\ run_pc = "finally"
    /\ run_pc' = "idle"
    /\ IF application_liquid_level_data_save_file_path # "None" /\ ~save_file_on_disk
       THEN /\ ret' = Raised("run", 0, "FileNotFoundError")
            /\ UNCHANGED <<liquid_level_data_file, dispense_pump, withdraw_pump,
                           stop_commands, save_folder_on_disk, save_file_on_disk>>
       ELSE /\ liquid_level_data_file' =
                   IF ~save_folder_bool THEN {}
                   ELSE IF application_liquid_level_data_save_file_path # "None"
                   THEN UpdateJsonFile(liquid_level_data_file, application_liquid_level_data)
                   ELSE liquid_level_data_file
            /\ IF monitor_class = "AutomatedCPCDualPumps"
               THEN /\ dispense_pump' = "stopped"
                    /\ withdraw_pump' = "stopped"
                    /\ stop_commands' = stop_commands \cup BothPumps
               ELSE UNCHANGED <<dispense_pump, withdraw_pump, stop_commands>>
            /\ save_folder_on_disk' = (save_folder_on_disk /\ save_folder_bool)
            /\ save_file_on_disk' = (save_file_on_disk /\ save_folder_bool)
            /\ ret' = IF pending_error = "" THEN Returned("run", 0, FALSE, <<>>)
                                            ELSE Raised("run", 0, pending_error)
    /\ UNCHANGED <<runStatic, loopVars, flagVars, pumps_are_running,
                   application_liquid_level_data,
                   application_liquid_level_data_save_file_path, pending_error,
                   do_not_try_again_calls, fail_safe_tripped>>

\* pause_the_experiment, called on the thread of the Slack handlers:
\* AutomatedCPCDualPumps also stops both pumps
PauseTheExperiment ==
    /\ pause_experiment' = TRUE
    /\ IF monitor_class = "AutomatedCPCDualPumps"
       THEN /\ pumps_are_running' = FALSE
            /\ dispense_pump' = "stopped"
            /\ withdraw_pump' = "stopped"
            /\ stop_commands' = stop_commands \cup BothPumps
       ELSE UNCHANGED pumpVars
    /\ UNCHANGED <<runStatic, loopVars, fileVars, run_experiment, run_pc,
                   application_liquid_level_data, pending_error, do_not_try_again_calls,
                   fail_safe_tripped, ret>>

\* resume_experiment
ResumeExperiment ==
    /\ pause_experiment' = FALSE
    /\ UNCHANGED <<runStatic, loopVars, fileVars, pumpVars, run_experiment, run_pc,
                   application_liquid_level_data, pending_error, do_not_try_again_calls,
                   fail_safe_tripped, ret>>

\* end_experiment
EndExperiment ==
    /\ run_experiment' = FALSE
    /\ UNCHANGED <<runStatic, loopVars, fileVars, pumpVars, pause_experiment, run_pc,
                   application_liquid_level_data, pending_error, do_not_try_again_calls,
                   fail_safe_tripped, ret>>

\* the heights and the correction directions explored
RunHeights == {1}
Directions == {"withdraw", "dispense"}

\* the steps of the thread that called run()
RunThread ==
    \/ RunSetsUp
    \/ RunLoopCondition
    \/ \E after_end_time \in BOOLEAN : RunBody(after_end_time)
    \/ RunSleeps
    \/ MeasurementFound(1000)
    \/ MeasurementNoMeniscusFound
    \/ MeasurementOtherError
    \/ ReturnMeasurements
    \/ AggregateDualPumps
    \/ \E tracker_provides_height, fail_safe_tolerance_bool, tolerance_bool \in BOOLEAN :
         \E height \in RunHeights :
           RunCycleEnds(tracker_provides_height, fail_safe_tolerance_bool, tolerance_bool, height)
    \/ RunFailSafeStops
    \/ RunInTolerance
    \/ RunAdvanceEnds
    \/ \E direction \in Directions : RunNotInTolerance(direction)
    \/ \E picture \in PictureOutcomes : RunSelfCorrectEnds(picture)
    \/ RunFinally

NextRun ==
    \/ RunCalled
    \/ RunThread
    \/ PauseTheExperiment
    \/ ResumeExperiment
    \/ EndExperiment

SpecRun == InitRuns /\ [][NextRun]_vars


\* C27: when the try limit is reached in a monitoring cycle, do_not_try_again
\* runs exactly once before run() ends
C27_GiveUpHandlerRunsOnce ==
    (run_pc = "idle" /\ ret.op = "run" /\ do_not_try_again_calls > 0)
        => do_not_try_again_calls = 1


\* C29: whenever AutomatedCPCDualPumps.run has finished, by returning or by
\* raising, a stop command was sent to both pumps and neither pump is running
C29_EveryExitStopsBothPumps ==
    (monitor_class = "AutomatedCPCDualPumps" /\ run_pc = "idle" /\ ret.op = "run")
        => /\ stop_commands = BothPumps
           /\ dispense_pump = "stopped"
           /\ withdraw_pump = "stopped"


\* the statements of run() inside its while loop
InLoop ==
    run_pc \in {"loop", "body", "sleep", "cycle", "fail_safe", "in_tolerance", "advance",
                "not_in_tolerance", "self_correct", "self_correct_withdraw",
                "self_correct_dispense"}

\* C25: while the loop of AutomatedCPCDualPumps.run is running and the
\* experiment stays paused (pause_the_experiment has returned and
\* resume_experiment has not been called since), no step starts a pump
C25_NoPumpStartedWhilePaused ==
    [][(monitor_class = "AutomatedCPCDualPumps" /\ InLoop
          /\ pause_experiment /\ pause_experiment')
         => /\ dispense_pump' = "running" => dispense_pump = "running"
            /\ withdraw_pump' = "running" => withdraw_pump = "running"]_vars


\* C24: once a monitoring cycle of AutomatedCPCDualPumps.run has returned a
\* fail-safe verdict of False, run() only stops the pumps and leaves (no
\* advance, no self-correction), and when it has finished it has returned, a
\* stop command was sent to both pumps and neither pump is running
C24_FailSafeStopsTheRun ==
    fail_safe_tripped =>
        /\ run_pc \in {"fail_safe", "finally", "idle"}
        /\ run_pc = "idle" =>
              /\ ret.op = "run"
              /\ ret.raised = ""
              /\ stop_commands = BothPumps
              /\ dispense_pump = "stopped"
              /\ withdraw_pump = "stopped"

\* a run that ended after a fail-safe verdict of False
C24_Witness ==
    /\ monitor_class = "AutomatedCPCDualPumps"
    /\ fail_safe_tripped
    /\ run_pc = "idle"
    /\ ret.op = "run"


\* run() of LiquidLevelMonitor alone (AutomatedCPCDualPumps overrides run())
InitRunsMonitor ==
    /\ InitRuns
    /\ monitor_class = "LiquidLevelMonitor"

\* the steps of the thread that called LiquidLevelMonitor.run
RunThreadMonitor ==
    \/ RunSetsUp
    \/ RunLoopCondition
    \/ \E after_end_time \in BOOLEAN : RunBody(after_end_time)
    \/ RunSleeps
    \/ MeasurementFound(1000)
    \/ MeasurementNoMeniscusFound
    \/ MeasurementOtherError
    \/ ReturnMeasurements
    \/ \E tracker_provides_height, tolerance_bool \in BOOLEAN :
         \E height \in RunHeights :
           RunCycleEnds(tracker_provides_height, TRUE, tolerance_bool, height)
    \/ RunInTolerance
    \/ RunAdvanceEnds
    \/ \E direction \in Directions : RunNotInTolerance(direction)
    \/ \E picture \in PictureOutcomes : RunSelfCorrectEnds(picture)
    \/ RunFinally

NextRunMonitor ==
    \/ RunCalled
    \/ RunThreadMonitor
    \/ PauseTheExperiment
    \/ ResumeExperiment
    \/ EndExperiment

\* the thread of run() is scheduled again and again: every statement of it
\* returns or raises
SpecRunFair == InitRunsMonitor /\ [][NextRunMonitor]_vars /\ WF_vars(RunThreadMonitor)

\* C28: once end_experiment has been called during LiquidLevelMonitor.run, paused
\* or not, run() comes to its end; the loop condition evaluated after the call
\* leads out of the loop with no exception, starting no cycle, advance or
\* self-correction, and run() then returns
C28_EndExperimentEndsTheRun ==
    /\ (monitor_class = "LiquidLevelMonitor" /\ ~run_experiment /\ run_pc # "idle")
           ~> (run_pc = "idle")
    /\ [][(monitor_class = "LiquidLevelMonitor" /\ ~run_experiment /\ run_pc = "loop"
             /\ run_pc' # "loop")
            => (run_pc' = "finally" /\ pending_error' = "")]_vars
    /\ [][(monitor_class = "LiquidLevelMonitor" /\ run_pc = "finally"
             /\ pending_error = "" /\ run_pc' = "idle")
            => (ret'.op = "run" /\ ret'.raised = "")]_vars

\* the paused loop of LiquidLevelMonitor.run is asleep and end_experiment has
\* been called since the loop last found run_experiment True
C28_Witness ==
    /\ monitor_class = "LiquidLevelMonitor"
    /\ run_pc = "sleep"
    /\ ~run_experiment

=============================================================================
